---- MODULE Spec2Model ----
(***************************************************************************)
(* A model of the Liu Yao divination engine (liu_yao.py together with its  *)
(* helpers wu_xing_utils.py and ba_zi_base.py).                            *)
(*                                                                         *)
(* The source writes stems, branches, elements, trigrams and labels as     *)
(* Chinese characters; this module writes them in ASCII romanisation:      *)
(*   branches  zi chou yin mao chen si wu wei shen you xu hai              *)
(*   stems     jia yi bing ding wug ji geng xin ren gui  (wug is the fifth *)
(*             stem, spelled apart from the branch wu)                     *)
(*   elements  jin(metal) shui(water) mu(wood) huo(fire) tu(earth)         *)
(*   trigrams  qian kan gen zhen xun li kun dui                            *)
(*   kinship   xiong_di zi_sun qi_cai guan_gui fu_mu, error value cuo_wu   *)
(*   strength  lin_yue yue_fu yue_sheng yue_ke xiu qiu, unknown wei_zhi    *)
(*   he types  sheng_he ke_he ping_he                                      *)
(*   shen sha  yue_jian ri_chen yue_po ri_chong yue_he ri_he yang_ren      *)
(*             tao_hua yi_ma gui_ren                                       *)
(* Python's None is the string "None"; a missing Pillar is NoPillar.       *)
(* A Python list index i (0-based) is position i+1 here.  A hexagram code  *)
(* "110010" is the tuple <<1,1,0,0,1,0>>, bottom line first.  A dict whose *)
(* iteration order matters is a sequence of <<key, value>> pairs in        *)
(* insertion order.                                                        *)
(***************************************************************************)
EXTENDS Integers, Sequences, FiniteSets, TLC

None == "None"
NoPillar == [stem |-> None, branch |-> None]

valid_stems == <<"jia", "yi", "bing", "ding", "wug", "ji", "geng", "xin", "ren", "gui">>
valid_branches == <<"zi", "chou", "yin", "mao", "chen", "si", "wu", "wei", "shen", "you", "xu", "hai">>

Range(s) == {s[i] : i \in DOMAIN s}

\* Pillar.__init__: a stem or branch outside the valid lists is a construction error.
Pillar(stem, branch) ==
    IF stem \in Range(valid_stems) /\ branch \in Range(valid_branches)
    THEN [stem |-> stem, branch |-> branch]
    ELSE NoPillar

\* Pillar.to_string: the stem character followed by the branch character.
to_string(p) == <<p.stem, p.branch>>

\* ---------------------------------------------------------------- wu_xing_utils

branchFiveElements ==
    ("zi" :> "shui" @@ "chou" :> "tu" @@ "yin" :> "mu" @@ "mao" :> "mu" @@
     "chen" :> "tu" @@ "si" :> "huo" @@ "wu" :> "huo" @@ "wei" :> "tu" @@
     "shen" :> "jin" @@ "you" :> "jin" @@ "xu" :> "tu" @@ "hai" :> "shui")

fiveElementIndex ==
    ("jin" :> 0 @@ "shui" :> 1 @@ "mu" :> 2 @@ "huo" :> 3 @@ "tu" :> 4)

\* Variant of getWangShuai with the tags xiu and qiu exchanged
\* (sensitivity check of C17).
getWangShuai_xiu_qiu_exchanged(lineElement, monthBranch, lineBranch) ==
    IF monthBranch \notin DOMAIN branchFiveElements \/ lineElement \notin DOMAIN fiveElementIndex
    THEN "wei_zhi"
    ELSE LET monthElement == branchFiveElements[monthBranch]
             lineIdx == fiveElementIndex[lineElement]
             monthIdx == fiveElementIndex[monthElement]
         IN  IF lineBranch # None /\ monthBranch = lineBranch THEN "lin_yue"
             ELSE IF lineIdx = monthIdx THEN "yue_fu"
             ELSE IF lineIdx = (monthIdx + 4) % 5 THEN "qiu"
             ELSE IF lineIdx = (monthIdx + 1) % 5 THEN "yue_sheng"
             ELSE IF lineIdx = (monthIdx + 2) % 5 THEN "yue_ke"
             ELSE "xiu"

getWangShuai(lineElement, monthBranch, lineBranch) ==
    IF monthBranch \notin DOMAIN branchFiveElements \/ lineElement \notin DOMAIN fiveElementIndex
    THEN "wei_zhi"
    ELSE LET monthElement == branchFiveElements[monthBranch]
             lineIdx == fiveElementIndex[lineElement]
             monthIdx == fiveElementIndex[monthElement]
         IN  IF lineBranch # None /\ lineBranch \in DOMAIN branchFiveElements /\ monthBranch = lineBranch
             THEN "lin_yue"
             ELSE IF lineBranch # None /\ lineBranch \in DOMAIN branchFiveElements
                     /\ branchFiveElements[lineBranch] = monthElement
             THEN "yue_fu"
             ELSE IF lineIdx = monthIdx THEN "yue_fu"
             ELSE IF lineIdx = (monthIdx + 4) % 5 THEN "xiu"
             ELSE IF lineIdx = (monthIdx + 1) % 5 THEN "yue_sheng"
             ELSE IF lineIdx = (monthIdx + 2) % 5 THEN "yue_ke"
             ELSE IF lineIdx = (monthIdx + 3) % 5 THEN "qiu"
             ELSE "wei_zhi"

\* Returns <<lin_ri, ri_fu>>.
checkLinRiRiFu(lineBranch, dayBranch) ==
    IF lineBranch = None \/ dayBranch = None THEN <<FALSE, FALSE>>
    ELSE IF lineBranch \notin DOMAIN branchFiveElements \/ dayBranch \notin DOMAIN branchFiveElements
    THEN <<FALSE, FALSE>>
    ELSE IF dayBranch = lineBranch THEN <<TRUE, FALSE>>
    ELSE IF branchFiveElements[lineBranch] = branchFiveElements[dayBranch] THEN <<FALSE, TRUE>>
    ELSE <<FALSE, FALSE>>

\* Returns <<ri_sheng, ri_ke>>.
checkRiShengRiKe(lineElement, dayBranch) ==
    IF lineElement = None \/ dayBranch = None THEN <<FALSE, FALSE>>
    ELSE IF lineElement \notin DOMAIN fiveElementIndex \/ dayBranch \notin DOMAIN branchFiveElements
    THEN <<FALSE, FALSE>>
    ELSE LET lineIdx == fiveElementIndex[lineElement]
             dayIdx == fiveElementIndex[branchFiveElements[dayBranch]]
         IN  IF lineIdx = (dayIdx + 1) % 5 THEN <<TRUE, FALSE>>
             ELSE IF lineIdx = (dayIdx + 2) % 5 THEN <<FALSE, TRUE>>
             ELSE <<FALSE, FALSE>>

\* BaZi.calculate_xun_kong: the two void branches of the day pillar's decan.
IndexOf(seq, x) == CHOOSE i \in DOMAIN seq : seq[i] = x

\* Variant of calculate_xun_kong that takes the day's own branch for the
\* branch the decan starts on (sensitivity check of C19).
calculate_xun_kong_from_day_branch(day_pillar) ==
    LET branch_idx == IndexOf(valid_branches, day_pillar.branch) - 1
    IN  <<valid_branches[((branch_idx + 10) % 12) + 1], valid_branches[((branch_idx + 11) % 12) + 1]>>

calculate_xun_kong(day_pillar) ==
    LET stem_idx == IndexOf(valid_stems, day_pillar.stem) - 1
        branch_idx == IndexOf(valid_branches, day_pillar.branch) - 1
        xun_start_branch_idx == (branch_idx - stem_idx) % 12
        kong1_idx == (xun_start_branch_idx + 10) % 12
        kong2_idx == (xun_start_branch_idx + 11) % 12
    IN  <<valid_branches[kong1_idx + 1], valid_branches[kong2_idx + 1]>>

\* BaZi.__init__
BaZi(year, month, day, hour, xun_kong_1, xun_kong_2) ==
    [year |-> year, month |-> month, day |-> day, hour |-> hour,
     xun_kong_1 |-> xun_kong_1, xun_kong_2 |-> xun_kong_2]

\* ---------------------------------------------------------------- liu_yao tables

\* Variant of sheng_he_pairs that pairs you with si instead of chen
\* (sensitivity check of C14).
sheng_he_pairs_si_you == {<<"wu", "wei">>, <<"si", "you">>, <<"hai", "yin">>}

sheng_he_pairs == {<<"wu", "wei">>, <<"chen", "you">>, <<"hai", "yin">>}
ke_he_pairs == {<<"si", "shen">>, <<"mao", "xu">>, <<"chou", "zi">>}
ping_he_pairs == {<<"wei", "wu">>, <<"you", "chen">>, <<"yin", "hai">>,
                  <<"shen", "si">>, <<"xu", "mao">>, <<"zi", "chou">>}

\* Variant of get_he_type that also applies the level pairs to the day
\* (sensitivity check of C13).
get_he_type_level_on_day(month_or_day_branch, yao_branch, is_month) ==
    IF <<month_or_day_branch, yao_branch>> \in sheng_he_pairs THEN "sheng_he"
    ELSE IF <<month_or_day_branch, yao_branch>> \in ke_he_pairs THEN "ke_he"
    ELSE IF <<month_or_day_branch, yao_branch>> \in ping_he_pairs THEN "ping_he"
    ELSE IF is_month /\ month_or_day_branch = "chen" /\ yao_branch \in {"yin", "mao"} THEN "ping_he"
    ELSE IF is_month /\ month_or_day_branch = "wei" /\ yao_branch \in {"si", "wu"} THEN "ping_he"
    ELSE None

get_he_type(month_or_day_branch, yao_branch, is_month) ==
    IF month_or_day_branch \notin DOMAIN branchFiveElements \/ yao_branch \notin DOMAIN branchFiveElements
    THEN None
    ELSE IF <<month_or_day_branch, yao_branch>> \in sheng_he_pairs THEN "sheng_he"
    ELSE IF <<month_or_day_branch, yao_branch>> \in ke_he_pairs THEN "ke_he"
    ELSE IF is_month /\ <<month_or_day_branch, yao_branch>> \in ping_he_pairs THEN "ping_he"
    ELSE IF is_month /\ month_or_day_branch = "chen" /\ yao_branch \in {"yin", "mao"} THEN "ping_he"
    ELSE IF is_month /\ month_or_day_branch = "wei" /\ yao_branch \in {"si", "wu"} THEN "ping_he"
    ELSE None

\* Variant of Hx whose entry for 011111 is keyed 111111, as a mistyped code
\* would key it (sensitivity check of C8).
Hx_mistyped_code(code, name, five_element, shi, ying, is_yang, palace_type, inner, outer, structure_type) ==
    (IF code = <<0, 1, 1, 1, 1, 1>> THEN <<1, 1, 1, 1, 1, 1>> ELSE code) :>
        [name |-> name, five_element |-> five_element, shi_yao_position |-> shi,
         ying_yao_position |-> ying, is_yang_hexagram |-> is_yang, palace_type |-> palace_type,
         inner_hexagram |-> inner, outer_hexagram |-> outer, structure_type |-> structure_type]

Hx(code, name, five_element, shi, ying, is_yang, palace_type, inner, outer, structure_type) ==
    code :> [name |-> name, five_element |-> five_element, shi_yao_position |-> shi,
             ying_yao_position |-> ying, is_yang_hexagram |-> is_yang, palace_type |-> palace_type,
             inner_hexagram |-> inner, outer_hexagram |-> outer, structure_type |-> structure_type]

\* HexagramInfo.get_detailed_name: palace, name and (when set) structure type.
get_detailed_name(info) == <<info.palace_type, info.name, info.structure_type>>

HEXAGRAM_MAP ==
    Hx(<<1, 1, 1, 1, 1, 1>>, "qian_wei_tian", "jin", 6, 3, TRUE, "qian", "qian", "qian", "ben_gong_liu_chong")
 @@ Hx(<<0, 1, 1, 1, 1, 1>>, "tian_feng_gou", "jin", 1, 4, TRUE, "qian", "xun", "qian", "")
 @@ Hx(<<0, 0, 1, 1, 1, 1>>, "tian_shan_dun", "jin", 2, 5, TRUE, "qian", "gen", "qian", "")
 @@ Hx(<<0, 0, 0, 1, 1, 1>>, "tian_di_pi", "jin", 3, 6, TRUE, "qian", "kun", "qian", "liu_he")
 @@ Hx(<<0, 0, 0, 0, 1, 1>>, "feng_di_guan", "jin", 4, 1, TRUE, "qian", "kun", "xun", "")
 @@ Hx(<<0, 0, 0, 0, 0, 1>>, "shan_di_bo", "jin", 5, 2, TRUE, "qian", "kun", "gen", "")
 @@ Hx(<<0, 0, 0, 1, 0, 1>>, "huo_di_jin", "jin", 4, 1, TRUE, "qian", "kun", "li", "you_hun")
 @@ Hx(<<1, 1, 1, 1, 0, 1>>, "huo_tian_da_you", "jin", 3, 6, TRUE, "qian", "qian", "li", "gui_hun")
 @@ Hx(<<0, 1, 0, 0, 1, 0>>, "kan_wei_shui", "shui", 6, 3, TRUE, "kan", "kan", "kan", "ben_gong_liu_chong")
 @@ Hx(<<1, 1, 0, 0, 1, 0>>, "shui_ze_jie", "shui", 1, 4, TRUE, "kan", "dui", "kan", "liu_he")
 @@ Hx(<<1, 0, 0, 0, 1, 0>>, "shui_lei_zhun", "shui", 2, 5, TRUE, "kan", "zhen", "kan", "")
 @@ Hx(<<1, 0, 1, 0, 1, 0>>, "shui_huo_ji_jii", "shui", 3, 6, TRUE, "kan", "li", "kan", "")
 @@ Hx(<<1, 0, 1, 1, 1, 0>>, "ze_huo_ge", "shui", 4, 1, TRUE, "kan", "li", "dui", "")
 @@ Hx(<<1, 0, 1, 1, 0, 0>>, "lei_huo_fengg", "shui", 5, 2, TRUE, "kan", "li", "zhen", "")
 @@ Hx(<<1, 0, 1, 0, 0, 0>>, "di_huo_ming_yi", "shui", 4, 1, TRUE, "kan", "li", "kun", "you_hun")
 @@ Hx(<<0, 1, 0, 0, 0, 0>>, "di_shui_shi", "shui", 3, 6, TRUE, "kan", "kun", "kan", "gui_hun")
 @@ Hx(<<0, 0, 1, 0, 0, 1>>, "gen_wei_shan", "tu", 6, 3, TRUE, "gen", "gen", "gen", "ben_gong_liu_chong")
 @@ Hx(<<1, 0, 1, 0, 0, 1>>, "shan_huo_bi", "tu", 1, 4, TRUE, "gen", "li", "gen", "liu_he")
 @@ Hx(<<1, 1, 1, 0, 0, 1>>, "shan_tian_da_xu", "tu", 2, 5, TRUE, "gen", "qian", "gen", "")
 @@ Hx(<<1, 1, 0, 0, 0, 1>>, "shan_ze_sun", "tu", 3, 6, TRUE, "gen", "dui", "gen", "")
 @@ Hx(<<1, 1, 0, 1, 0, 1>>, "huo_ze_kui", "tu", 4, 1, TRUE, "gen", "dui", "li", "")
 @@ Hx(<<1, 1, 0, 1, 1, 1>>, "tian_ze_lv", "tu", 5, 2, TRUE, "gen", "dui", "qian", "")
 @@ Hx(<<1, 1, 0, 0, 1, 1>>, "feng_ze_zhong_fu", "tu", 4, 1, TRUE, "gen", "dui", "xun", "you_hun")
 @@ Hx(<<0, 0, 1, 0, 1, 1>>, "feng_shan_jian", "tu", 3, 6, TRUE, "gen", "gen", "xun", "gui_hun")
 @@ Hx(<<1, 0, 0, 1, 0, 0>>, "zhen_wei_lei", "mu", 6, 3, TRUE, "zhen", "zhen", "zhen", "ben_gong_liu_chong")
 @@ Hx(<<0, 0, 0, 1, 0, 0>>, "lei_di_yu", "mu", 1, 4, TRUE, "zhen", "kun", "zhen", "liu_he")
 @@ Hx(<<0, 1, 0, 1, 0, 0>>, "lei_shui_xie", "mu", 2, 5, TRUE, "zhen", "kan", "zhen", "")
 @@ Hx(<<0, 1, 1, 1, 0, 0>>, "lei_feng_heng", "mu", 3, 6, TRUE, "zhen", "xun", "zhen", "")
 @@ Hx(<<0, 1, 1, 0, 0, 0>>, "di_feng_sheng", "mu", 4, 1, TRUE, "zhen", "xun", "kun", "")
 @@ Hx(<<0, 1, 1, 0, 1, 0>>, "shui_feng_jing", "mu", 5, 2, TRUE, "zhen", "xun", "kan", "")
 @@ Hx(<<0, 1, 1, 1, 1, 0>>, "ze_feng_da_guo", "mu", 4, 1, TRUE, "zhen", "xun", "dui", "you_hun")
 @@ Hx(<<1, 0, 0, 1, 1, 0>>, "ze_lei_sui", "mu", 3, 6, TRUE, "zhen", "zhen", "dui", "gui_hun")
 @@ Hx(<<0, 1, 1, 0, 1, 1>>, "xun_wei_feng", "mu", 6, 3, FALSE, "xun", "xun", "xun", "ben_gong_liu_chong")
 @@ Hx(<<1, 1, 1, 0, 1, 1>>, "feng_tian_xiao_xu", "mu", 1, 4, FALSE, "xun", "qian", "xun", "")
 @@ Hx(<<1, 0, 1, 0, 1, 1>>, "feng_huo_jia_ren", "mu", 2, 5, FALSE, "xun", "li", "xun", "")
 @@ Hx(<<1, 0, 0, 0, 1, 1>>, "feng_lei_yii", "mu", 3, 6, FALSE, "xun", "zhen", "xun", "")
 @@ Hx(<<1, 0, 0, 1, 1, 1>>, "tian_lei_wu_wang", "mu", 4, 1, FALSE, "xun", "zhen", "qian", "liu_chong")
 @@ Hx(<<1, 0, 0, 1, 0, 1>>, "huo_lei_shi4_he", "mu", 5, 2, FALSE, "xun", "zhen", "li", "")
 @@ Hx(<<1, 0, 0, 0, 0, 1>>, "shan_lei_yi2", "mu", 4, 1, FALSE, "xun", "zhen", "gen", "you_hun")
 @@ Hx(<<0, 1, 1, 0, 0, 1>>, "shan_feng_gu", "mu", 3, 6, FALSE, "xun", "xun", "gen", "gui_hun")
 @@ Hx(<<1, 0, 1, 1, 0, 1>>, "li_wei_huo", "huo", 6, 3, FALSE, "li", "li", "li", "ben_gong_liu_chong")
 @@ Hx(<<0, 0, 1, 1, 0, 1>>, "huo_shan_lvv", "huo", 1, 4, FALSE, "li", "gen", "li", "liu_he")
 @@ Hx(<<0, 1, 1, 1, 0, 1>>, "huo_feng_ding", "huo", 2, 5, FALSE, "li", "xun", "li", "")
 @@ Hx(<<0, 1, 0, 1, 0, 1>>, "huo_shui_weii_jii", "huo", 3, 6, FALSE, "li", "kan", "li", "")
 @@ Hx(<<0, 1, 0, 0, 0, 1>>, "shan_shui_meng", "huo", 4, 1, FALSE, "li", "kan", "gen", "")
 @@ Hx(<<0, 1, 0, 0, 1, 1>>, "feng_shui_huan", "huo", 5, 2, FALSE, "li", "xun", "kan", "")
 @@ Hx(<<0, 1, 0, 1, 1, 1>>, "tian_shui_song", "huo", 4, 1, FALSE, "li", "kan", "qian", "you_hun")
 @@ Hx(<<1, 0, 1, 1, 1, 1>>, "tian_huo_tong_ren", "huo", 3, 6, FALSE, "li", "qian", "li", "gui_hun")
 @@ Hx(<<0, 0, 0, 0, 0, 0>>, "kun_wei_di", "tu", 6, 3, FALSE, "kun", "kun", "kun", "ben_gong_liu_chong")
 @@ Hx(<<1, 0, 0, 0, 0, 0>>, "di_lei_fuu", "tu", 1, 4, FALSE, "kun", "zhen", "kun", "liu_he")
 @@ Hx(<<1, 1, 0, 0, 0, 0>>, "di_ze_lin", "tu", 2, 5, FALSE, "kun", "dui", "kun", "")
 @@ Hx(<<1, 1, 1, 0, 0, 0>>, "di_tian_tai", "tu", 3, 6, FALSE, "kun", "qian", "kun", "liu_he")
 @@ Hx(<<1, 1, 1, 1, 0, 0>>, "lei_tian_da_zhuang", "tu", 4, 1, FALSE, "kun", "qian", "zhen", "liu_chong")
 @@ Hx(<<1, 1, 1, 1, 1, 0>>, "ze_tian_guai", "tu", 5, 2, FALSE, "kun", "qian", "dui", "")
 @@ Hx(<<1, 1, 1, 0, 1, 0>>, "shui_tian_xuu", "tu", 4, 1, FALSE, "kun", "qian", "kan", "you_hun")
 @@ Hx(<<0, 0, 0, 0, 1, 0>>, "shui_di_bii", "tu", 3, 6, FALSE, "kun", "kun", "kan", "gui_hun")
 @@ Hx(<<1, 1, 0, 1, 1, 0>>, "dui_wei_ze", "jin", 6, 3, FALSE, "dui", "dui", "dui", "ben_gong_liu_chong")
 @@ Hx(<<0, 1, 0, 1, 1, 0>>, "ze_shui_kun4", "jin", 1, 4, FALSE, "dui", "kan", "dui", "liu_he")
 @@ Hx(<<0, 0, 0, 1, 1, 0>>, "ze_di_cui", "jin", 2, 5, FALSE, "dui", "kun", "dui", "")
 @@ Hx(<<0, 0, 1, 1, 1, 0>>, "ze_shan_xian", "jin", 3, 6, FALSE, "dui", "gen", "dui", "")
 @@ Hx(<<0, 0, 1, 0, 1, 0>>, "shui_shan_jiann", "jin", 4, 1, FALSE, "dui", "gen", "kan", "")
 @@ Hx(<<0, 0, 1, 0, 0, 0>>, "di_shan_qian1", "jin", 5, 2, FALSE, "dui", "gen", "kun", "")
 @@ Hx(<<0, 0, 1, 1, 0, 0>>, "lei_shan_xiao_guo", "jin", 4, 1, FALSE, "dui", "gen", "zhen", "you_hun")
 @@ Hx(<<1, 1, 0, 1, 0, 0>>, "lei_ze_gui_mei", "jin", 3, 6, FALSE, "dui", "zhen", "dui", "gui_hun")

PALACE_BRANCH_PATTERNS ==
    ("qian" :> <<"zi", "yin", "chen", "wu", "shen", "xu">> @@
     "kan"  :> <<"yin", "chen", "wu", "shen", "xu", "zi">> @@
     "gen"  :> <<"chen", "wu", "shen", "xu", "zi", "yin">> @@
     "zhen" :> <<"zi", "yin", "chen", "wu", "shen", "xu">> @@
     "xun"  :> <<"chou", "hai", "you", "wei", "si", "mao">> @@
     "li"   :> <<"mao", "chou", "hai", "you", "wei", "si">> @@
     "kun"  :> <<"wei", "si", "mao", "chou", "hai", "you">> @@
     "dui"  :> <<"si", "mao", "chou", "hai", "you", "wei">>)

PALACE_STEM_PATTERNS ==
    ("qian" :> <<"jia", "jia", "jia", "ren", "ren", "ren">> @@
     "kan"  :> <<"wug", "wug", "wug", "wug", "wug", "wug">> @@
     "gen"  :> <<"bing", "bing", "bing", "bing", "bing", "bing">> @@
     "zhen" :> <<"geng", "geng", "geng", "geng", "geng", "geng">> @@
     "xun"  :> <<"xin", "xin", "xin", "xin", "xin", "xin">> @@
     "li"   :> <<"ji", "ji", "ji", "ji", "ji", "ji">> @@
     "kun"  :> <<"yi", "yi", "yi", "gui", "gui", "gui">> @@
     "dui"  :> <<"ding", "ding", "ding", "ding", "ding", "ding">>)

DAY_STEM_TO_SPIRIT_START ==
    ("jia" :> 0 @@ "yi" :> 0 @@ "bing" :> 1 @@ "ding" :> 1 @@ "wug" :> 2 @@
     "ji" :> 3 @@ "geng" :> 4 @@ "xin" :> 4 @@ "ren" :> 5 @@ "gui" :> 5)

SIX_SPIRITS == <<"qing_long", "zhu_que", "gou_chen", "teng_she", "bai_hu", "xuan_wu">>

RELATIVE_NAMES == <<"xiong_di", "zi_sun", "qi_cai", "guan_gui", "fu_mu">>

\* Variant of get_relative that takes the difference from the line to the
\* palace, the other way round (sensitivity check of C18).
get_relative_from_line_to_palace(palace_element, yao_element) ==
    IF palace_element \notin DOMAIN fiveElementIndex \/ yao_element \notin DOMAIN fiveElementIndex
    THEN "cuo_wu"
    ELSE RELATIVE_NAMES[((fiveElementIndex[palace_element] - fiveElementIndex[yao_element] + 5) % 5) + 1]

get_relative(palace_element, yao_element) ==
    IF palace_element = "" \/ yao_element = "" THEN "cuo_wu"
    ELSE IF palace_element \notin DOMAIN fiveElementIndex \/ yao_element \notin DOMAIN fiveElementIndex
    THEN "cuo_wu"
    ELSE IF palace_element = yao_element THEN RELATIVE_NAMES[1]
    ELSE RELATIVE_NAMES[((fiveElementIndex[yao_element] - fiveElementIndex[palace_element] + 5) % 5) + 1]

SHEN_SHA_YANG_REN_MAP ==
    ("jia" :> "mao" @@ "yi" :> "chen" @@ "bing" :> "wu" @@ "ding" :> "wei" @@ "wug" :> "wu" @@
     "ji" :> "wei" @@ "geng" :> "you" @@ "xin" :> "xu" @@ "ren" :> "zi" @@ "gui" :> "chou")

SHEN_SHA_TAO_HUA_MAP ==
    ("yin" :> "mao" @@ "wu" :> "mao" @@ "xu" :> "mao" @@
     "shen" :> "you" @@ "zi" :> "you" @@ "chen" :> "you" @@
     "hai" :> "zi" @@ "mao" :> "zi" @@ "wei" :> "zi" @@
     "si" :> "wu" @@ "you" :> "wu" @@ "chou" :> "wu")

SHEN_SHA_YI_MA_MAP ==
    ("yin" :> "shen" @@ "wu" :> "shen" @@ "xu" :> "shen" @@
     "shen" :> "yin" @@ "zi" :> "yin" @@ "chen" :> "yin" @@
     "hai" :> "si" @@ "mao" :> "si" @@ "wei" :> "si" @@
     "si" :> "hai" @@ "you" :> "hai" @@ "chou" :> "hai")

SHEN_SHA_GUI_REN_MAP ==
    ("jia" :> <<"chou", "wei">> @@ "wug" :> <<"chou", "wei">> @@ "geng" :> <<"chou", "wei">> @@
     "yi" :> <<"zi", "shen">> @@ "ji" :> <<"zi", "shen">> @@
     "bing" :> <<"hai", "you">> @@ "ding" :> <<"hai", "you">> @@
     "ren" :> <<"si", "mao">> @@ "gui" :> <<"si", "mao">> @@
     "xin" :> <<"wu", "yin">>)

\* Variant of DIZHI_CHONG_MAP whose chou row is the row of the combination
\* table (sensitivity check of C15).
DIZHI_CHONG_MAP_chou_row_of_he ==
    ("zi" :> "wu" @@ "chou" :> "zi" @@ "yin" :> "shen" @@ "mao" :> "you" @@
     "chen" :> "xu" @@ "si" :> "hai" @@ "wu" :> "zi" @@ "wei" :> "chou" @@
     "shen" :> "yin" @@ "you" :> "mao" @@ "xu" :> "chen" @@ "hai" :> "si")

DIZHI_CHONG_MAP ==
    ("zi" :> "wu" @@ "chou" :> "wei" @@ "yin" :> "shen" @@ "mao" :> "you" @@
     "chen" :> "xu" @@ "si" :> "hai" @@ "wu" :> "zi" @@ "wei" :> "chou" @@
     "shen" :> "yin" @@ "you" :> "mao" @@ "xu" :> "chen" @@ "hai" :> "si")

\* Variant of DIZHI_HE_MAP whose you row points at si, the branch you meets
\* in a triad (sensitivity check of C20).
DIZHI_HE_MAP_you_to_si ==
    ("zi" :> "chou" @@ "chou" :> "zi" @@ "yin" :> "hai" @@ "hai" :> "yin" @@
     "mao" :> "xu" @@ "xu" :> "mao" @@ "chen" :> "you" @@ "you" :> "si" @@
     "si" :> "shen" @@ "shen" :> "si" @@ "wu" :> "wei" @@ "wei" :> "wu")

DIZHI_HE_MAP ==
    ("zi" :> "chou" @@ "chou" :> "zi" @@ "yin" :> "hai" @@ "hai" :> "yin" @@
     "mao" :> "xu" @@ "xu" :> "mao" @@ "chen" :> "you" @@ "you" :> "chen" @@
     "si" :> "shen" @@ "shen" :> "si" @@ "wu" :> "wei" @@ "wei" :> "wu")

\* The Unicode code point of each branch character: list.sort() on the gui_ren
\* branches orders the one-character strings by code point.
BranchCodePoint ==
    ("zi" :> 23376 @@ "chou" :> 19985 @@ "yin" :> 23493 @@ "mao" :> 21359 @@
     "chen" :> 36784 @@ "si" :> 24051 @@ "wu" :> 21320 @@ "wei" :> 26410 @@
     "shen" :> 30003 @@ "you" :> 37193 @@ "xu" :> 25100 @@ "hai" :> 20133)

\* ---------------------------------------------------------------- YaoDetails

\* The dataclass defaults of YaoDetails.
YaoDetails(position) ==
    [position |-> position,
     main_pillar |-> NoPillar, main_element |-> "", main_relative |-> "",
     hidden_pillar |-> NoPillar, hidden_relative |-> "", hidden_element |-> "",
     is_changing |-> FALSE, changed_pillar |-> NoPillar, changed_element |-> "", changed_relative |-> "",
     spirit |-> "", wang_shuai |-> "", shi_ying_mark |-> " ", main_yao_type |-> 0, change_mark |-> " ",
     xun_kong |-> FALSE, yue_peng |-> FALSE, ri_chong |-> FALSE, yue_he |-> None, ri_he |-> None,
     lin_ri |-> FALSE, ri_fu |-> FALSE, ri_sheng |-> FALSE, ri_ke |-> FALSE,
     an_dong |-> FALSE, ri_peng |-> FALSE, shen_sha_markers |-> <<>>,
     changed_xun_kong |-> FALSE, changed_yue_peng |-> FALSE, changed_ri_peng |-> FALSE,
     changed_ri_chong |-> FALSE, changed_yue_he |-> None, changed_ri_he |-> None,
     changed_lin_ri |-> FALSE, changed_ri_fu |-> FALSE, changed_ri_sheng |-> FALSE,
     changed_ri_ke |-> FALSE, changed_an_dong |-> FALSE]

\* `if v:` on an Optional[str] field: None and the empty string are false.
truthy(v) == v # None /\ v # ""

\* The characters str.strip() removes (those str.isspace() accepts), among the
\* ASCII characters, which are the characters of this module's strings: tab
\* (U+0009), line feed (U+000A), vertical tab (U+000B), form feed (U+000C),
\* carriage return (U+000D), U+001C, U+001D, U+001E, U+001F and space (U+0020).
\* The white space outside ASCII (U+0085, U+00A0, U+1680, U+2000 to U+200A,
\* U+2028, U+2029, U+202F, U+205F, U+3000) is left out with the rest of the
\* characters outside ASCII.
whitespace ==
    {"\t", "\n", "", "", "", "", "",
     "\f", "\r", " "}

RECURSIVE lstrip(_)
\* s.lstrip(): s without its leading white space.
lstrip(s) ==
    IF Len(s) = 0 THEN s
    ELSE IF SubSeq(s, 1, 1) \in whitespace THEN lstrip(SubSeq(s, 2, Len(s)))
    ELSE s

RECURSIVE rstrip(_)
\* s.rstrip(): s without its trailing white space.
rstrip(s) ==
    IF Len(s) = 0 THEN s
    ELSE IF SubSeq(s, Len(s), Len(s)) \in whitespace THEN rstrip(SubSeq(s, 1, Len(s) - 1))
    ELSE s

\* s.strip(): s without its leading and trailing white space.
strip(s) == rstrip(lstrip(s))

\* YaoDetails.to_dict.  The dict literal writes the key "riPeng" twice, first with
\* ri_chong and then with ri_peng; the later value is the one the dict keeps.
to_dict(yao) ==
    [position |-> yao.position,
     mainPillar |-> IF yao.main_pillar # NoPillar THEN to_string(yao.main_pillar) ELSE <<>>,
     mainElement |-> yao.main_element, mainRelative |-> yao.main_relative,
     hiddenPillar |-> IF yao.hidden_pillar # NoPillar THEN to_string(yao.hidden_pillar) ELSE <<>>,
     hiddenRelative |-> yao.hidden_relative, hiddenElement |-> yao.hidden_element,
     isChanging |-> yao.is_changing,
     changedPillar |-> IF yao.changed_pillar # NoPillar THEN to_string(yao.changed_pillar) ELSE <<>>,
     changedElement |-> yao.changed_element, changedRelative |-> yao.changed_relative,
     spirit |-> yao.spirit, wangShuai |-> yao.wang_shuai, shiYingMark |-> yao.shi_ying_mark,
     mainYaoType |-> yao.main_yao_type, changeMark |-> yao.change_mark,
     xunKong |-> yao.xun_kong, yuePeng |-> yao.yue_peng,
     yueHe |-> IF truthy(yao.yue_he) THEN yao.yue_he ELSE "False",
     riHe |-> IF truthy(yao.ri_he) THEN yao.ri_he ELSE "False",
     linRi |-> yao.lin_ri, riFu |-> yao.ri_fu, riSheng |-> yao.ri_sheng, riKe |-> yao.ri_ke,
     anDong |-> yao.an_dong, riPeng |-> yao.ri_peng,
     shenShaMarkers |-> yao.shen_sha_markers]

\* ---------------------------------------------------------------- san he ju

san_he_ju_groups ==
    << <<"si", "you", "chou">>, <<"shen", "zi", "chen">>,
       <<"hai", "mao", "wei">>, <<"yin", "wu", "xu">> >>

zhong_shen_of == <<"you", "zi", "mao", "wu">>

\* The entry of branch_sources for branch b after the four passes of one group
\* (main lines, changed lines, day, month), or None when b has no entry.
\* An entry is [source, is_changing, yao_index]; day and month overwrite, the
\* line passes keep the first entry written.
first_line(liu_yao, P(_)) ==
    IF \E i \in DOMAIN liu_yao : P(liu_yao[i])
    THEN CHOOSE i \in DOMAIN liu_yao : P(liu_yao[i]) /\ \A j \in 1..(i - 1) : ~P(liu_yao[j])
    ELSE 0

branch_source(liu_yao, day_branch, month_branch, b) ==
    LET main_ok(yao) == yao.main_pillar # NoPillar /\ yao.main_pillar.branch = b
                        /\ (yao.is_changing \/ yao.an_dong)
        changed_ok(yao) == yao.changed_pillar # NoPillar /\ yao.is_changing
                           /\ yao.changed_pillar.branch = b
        m == first_line(liu_yao, main_ok)
        c == first_line(liu_yao, changed_ok)
    IN  IF month_branch = b THEN [source |-> "yue", is_changing |-> TRUE, yao_index |-> 0]
        ELSE IF day_branch = b THEN [source |-> "ri", is_changing |-> TRUE, yao_index |-> 0]
        ELSE IF m # 0 THEN [source |-> "ben_gua_yao", is_changing |-> liu_yao[m].is_changing, yao_index |-> m]
        ELSE IF c # 0 THEN [source |-> "bian_yao", is_changing |-> TRUE, yao_index |-> c]
        ELSE [source |-> None, is_changing |-> FALSE, yao_index |-> 0]

\* Variant of group_qualifies that does not test whether the centre branch's
\* source is changing (sensitivity check of C10).
group_qualifies_any_centre(liu_yao, day_branch, month_branch, g) ==
    \A k \in 1..3 :
        branch_source(liu_yao, day_branch, month_branch, san_he_ju_groups[g][k]).source # None

\* Whether group g (1..4) passes every test of the loop body.
group_qualifies(liu_yao, day_branch, month_branch, g) ==
    LET branches == san_he_ju_groups[g]
        src(b) == branch_source(liu_yao, day_branch, month_branch, b)
        zs == src(zhong_shen_of[g])
    IN  /\ \A k \in 1..3 : src(branches[k]).source # None
        /\ zs.source # None
        /\ zs.is_changing
        /\ (zs.source = "bian_yao" => liu_yao[zs.yao_index].is_changing)
        /\ (zs.source = "ben_gua_yao" => liu_yao[zs.yao_index].is_changing)

\* The returned string: the group's three branch characters and the suffix san he ju.
san_he_ju_name(g) ==
    <<"si_you_chou_san_he_ju", "shen_zi_chen_san_he_ju",
      "hai_mao_wei_san_he_ju", "yin_wu_xu_san_he_ju">>[g]

\* Variant of check_san_he_ju that returns the last qualifying group
\* (sensitivity check of C11).
check_san_he_ju_last_group(liu_yao, bazi) ==
    LET ok(g) == group_qualifies(liu_yao, bazi.day.branch, bazi.month.branch, g)
    IN  IF \E g \in 1..4 : ok(g)
        THEN san_he_ju_name(CHOOSE g \in 1..4 : ok(g) /\ \A h \in (g + 1)..4 : ~ok(h))
        ELSE None

\* Returns the name of the first qualifying group, or None.
check_san_he_ju(liu_yao, bazi) ==
    LET day_branch == bazi.day.branch
        month_branch == bazi.month.branch
        ok(g) == group_qualifies(liu_yao, day_branch, month_branch, g)
    IN  IF \E g \in 1..4 : ok(g)
        THEN san_he_ju_name(CHOOSE g \in 1..4 : ok(g) /\ \A h \in 1..(g - 1) : ~ok(h))
        ELSE None

\* ---------------------------------------------------------------- shen sha map

dict_has(d, k) == \E i \in DOMAIN d : d[i][1] = k

\* dict.get(k, []) on a dict held as a sequence of <<key, value>> pairs.
dict_get(d, k) ==
    IF dict_has(d, k) THEN d[CHOOSE i \in DOMAIN d : d[i][1] = k][2] ELSE <<>>

\* list.sort() of the (two-element) gui_ren list.
sort_branches(l) ==
    IF Len(l) = 2 /\ BranchCodePoint[l[2]] < BranchCodePoint[l[1]] THEN <<l[2], l[1]>> ELSE l

\* Variant of cache_key that leaves the day pillar out
\* (sensitivity check of C23).
cache_key_without_day(bazi) ==
    <<to_string(bazi.year), to_string(bazi.month), to_string(bazi.hour)>>

\* The cache key: the four pillar strings joined by "_".
cache_key(bazi) ==
    <<to_string(bazi.year), to_string(bazi.month), to_string(bazi.day), to_string(bazi.hour)>>

\* Variant of copy_map that copies v[:1] in place of v[:]
\* (sensitivity check of C9).
copy_map_first_items(d) == [i \in DOMAIN d |-> <<d[i][1], SubSeq(d[i][2], 1, 1)>>]

\* {k: v[:] for k, v in d.items()}
copy_map(d) == [i \in DOMAIN d |-> <<d[i][1], d[i][2]>>]

\* The body of build_shen_sha_map on a cache miss: the map in insertion order.
compute_shen_sha_map(bazi) ==
    LET day_stem == bazi.day.stem
        day_branch == bazi.day.branch
        month_branch == bazi.month.branch
    IN  << <<"yue_jian", <<month_branch>> >>,
           <<"ri_chen", <<day_branch>> >>,
           <<"yue_po", IF month_branch \in DOMAIN DIZHI_CHONG_MAP
                       THEN <<DIZHI_CHONG_MAP[month_branch]>> ELSE <<>> >>,
           <<"yue_he", IF month_branch \in DOMAIN DIZHI_HE_MAP
                       THEN <<DIZHI_HE_MAP[month_branch]>> ELSE <<>> >>,
           <<"ri_chong", IF day_branch \in DOMAIN DIZHI_CHONG_MAP
                         THEN <<DIZHI_CHONG_MAP[day_branch]>> ELSE <<>> >>,
           <<"ri_he", IF day_branch \in DOMAIN DIZHI_HE_MAP
                      THEN <<DIZHI_HE_MAP[day_branch]>> ELSE <<>> >>,
           <<"yang_ren", <<SHEN_SHA_YANG_REN_MAP[day_stem]>> >>,
           <<"tao_hua", <<SHEN_SHA_TAO_HUA_MAP[day_branch]>> >>,
           <<"yi_ma", <<SHEN_SHA_YI_MA_MAP[day_branch]>> >>,
           <<"gui_ren", sort_branches(SHEN_SHA_GUI_REN_MAP[day_stem])>> >>

\* build_shen_sha_map(bazi) run against the cache `cache` (a function from the
\* keys present to the stored maps): the returned map and the cache afterwards.
build_shen_sha_map(bazi, cache) ==
    LET key == cache_key(bazi)
    IN  IF key \in DOMAIN cache
        THEN [map |-> copy_map(cache[key]), cache |-> cache]
        ELSE LET result == compute_shen_sha_map(bazi)
             IN  [map |-> result, cache |-> (key :> copy_map(result)) @@ cache]

\* ---------------------------------------------------------------- pillars, elements, kinship

\* for i in range(6): the list of the six values F(1) .. F(6).
EachLine(F(_)) == <<F(1), F(2), F(3), F(4), F(5), F(6)>>

\* Variant of initialize_yao_details_vector that also marks the shi line
\* changing (sensitivity check of C21).
initialize_yao_details_vector_shi_changing(main_info, changing_line_indices) ==
    EachLine(LAMBDA p :
        [YaoDetails(p) EXCEPT
            !.is_changing = p \in Range(changing_line_indices) \/ p = main_info.shi_yao_position,
            !.shi_ying_mark = IF p = main_info.shi_yao_position THEN "shi"
                              ELSE IF p = main_info.ying_yao_position THEN "ying"
                              ELSE ""])

initialize_yao_details_vector(main_info, changing_line_indices) ==
    EachLine(LAMBDA p :
        [YaoDetails(p) EXCEPT
            !.is_changing = p \in Range(changing_line_indices),
            !.shi_ying_mark = IF p = main_info.shi_yao_position THEN "shi"
                              ELSE IF p = main_info.ying_yao_position THEN "ying"
                              ELSE ""])

\* The pillar generate_tian_gan_and_di_zhi builds for position p of `hexagram`.
na_jia_pillar(hexagram, p) ==
    IF p <= 3
    THEN Pillar(PALACE_STEM_PATTERNS[hexagram.inner_hexagram][p],
                PALACE_BRANCH_PATTERNS[hexagram.inner_hexagram][p])
    ELSE Pillar(PALACE_STEM_PATTERNS[hexagram.outer_hexagram][p],
                PALACE_BRANCH_PATTERNS[hexagram.outer_hexagram][p])

\* type_yao: 0 main pillar, 1 changed pillar, 2 hidden pillar; every one of the
\* six lines gets the pillar.
generate_tian_gan_and_di_zhi(yao_details_list, hexagram, type_yao) ==
    EachLine(LAMBDA p :
        IF type_yao = 0 THEN [yao_details_list[p] EXCEPT !.main_pillar = na_jia_pillar(hexagram, p)]
        ELSE IF type_yao = 1 THEN [yao_details_list[p] EXCEPT !.changed_pillar = na_jia_pillar(hexagram, p)]
        ELSE IF type_yao = 2 THEN [yao_details_list[p] EXCEPT !.hidden_pillar = na_jia_pillar(hexagram, p)]
        ELSE yao_details_list[p])

fill_element_and_relative(yao_list, palace_element, is_main_hexagram) ==
    EachLine(LAMBDA p :
        LET yao == yao_list[p]
            pillar == IF is_main_hexagram THEN yao.main_pillar ELSE yao.changed_pillar
            known == pillar # NoPillar /\ pillar.branch \in DOMAIN branchFiveElements
            element == IF known THEN branchFiveElements[pillar.branch] ELSE "wei_zhi"
            relative == IF known THEN get_relative(palace_element, element) ELSE "cuo_wu"
        IN  IF is_main_hexagram
            THEN [yao EXCEPT !.main_element = element, !.main_relative = relative]
            ELSE [yao EXCEPT !.changed_element = element, !.changed_relative = relative])

NotARelative == {"cuo_wu", "wei_zhi", ""}

\* Variant of main_relatives_of that collects the roles of the inner trigram's
\* lines only (sensitivity check of C4).
main_relatives_of_inner_lines(yao_list) ==
    {yao_list[p].main_relative : p \in 1..3} \ NotARelative

\* The set main_relatives collected by calculate_hidden_gods.
main_relatives_of(yao_list) ==
    {yao_list[p].main_relative : p \in DOMAIN yao_list} \ NotARelative

\* Variant of keeps_hidden that keeps every hidden line with a proper role
\* (sensitivity check of C3).
keeps_hidden_every_role(calculated_relative, main_relatives) ==
    calculated_relative \notin NotARelative

\* Whether calculate_hidden_gods keeps a hidden line of role calculated_relative.
keeps_hidden(calculated_relative, main_relatives) ==
    calculated_relative \notin NotARelative /\ calculated_relative \notin main_relatives

calculate_hidden_gods(base_palace_info, main_palace_element, yao_list) ==
    LET main_relatives == main_relatives_of(yao_list)
        with_hidden == generate_tian_gan_and_di_zhi(yao_list, base_palace_info, 2)
    IN  EachLine(LAMBDA p :
            LET yao == with_hidden[p]
            IN  IF yao.hidden_pillar = NoPillar
                THEN [yao EXCEPT !.hidden_element = "", !.hidden_relative = ""]
                ELSE IF yao.hidden_pillar.branch \in DOMAIN branchFiveElements
                THEN LET hidden_element == branchFiveElements[yao.hidden_pillar.branch]
                         calculated_relative == get_relative(main_palace_element, hidden_element)
                     IN  IF keeps_hidden(calculated_relative, main_relatives)
                         THEN [yao EXCEPT !.hidden_element = hidden_element,
                                          !.hidden_relative = calculated_relative]
                         ELSE [yao EXCEPT !.hidden_pillar = NoPillar,
                                          !.hidden_element = "", !.hidden_relative = ""]
                ELSE [yao EXCEPT !.hidden_element = "", !.hidden_relative = ""])

hua_jin_map == ("yin" :> "mao" @@ "shen" :> "you" @@ "wei" :> "xu" @@ "chou" :> "chen")
hua_tui_map == ("mao" :> "yin" @@ "you" :> "shen" @@ "xu" :> "wei" @@ "chen" :> "chou")

check_hua_jin_tui(main_branch, changed_branch) ==
    IF main_branch \in DOMAIN hua_jin_map /\ changed_branch = hua_jin_map[main_branch] THEN "hua_jin_shen"
    ELSE IF main_branch \in DOMAIN hua_tui_map /\ changed_branch = hua_tui_map[main_branch] THEN "hua_tui_shen"
    ELSE None

check_hui_tou_sheng_ke(main_element, changed_element) ==
    IF main_element = "" \/ changed_element = "" THEN None
    ELSE IF main_element \notin DOMAIN fiveElementIndex \/ changed_element \notin DOMAIN fiveElementIndex
    THEN None
    ELSE LET diff == (fiveElementIndex[main_element] - fiveElementIndex[changed_element] + 5) % 5
         IN  IF diff = 1 THEN "hui_tou_sheng"
             ELSE IF diff = 2 THEN "hui_tou_ke"
             ELSE None

\* ---------------------------------------------------------------- format_liu_yao_display_pc

\* Variant of shows_wang_shuai that under yue_peng holds back yue_sheng and
\* yue_ke only (sensitivity check of C24).
shows_wang_shuai_under_yue_peng(yao) ==
    IF ~(truthy(yao.wang_shuai) /\ truthy(strip(yao.wang_shuai))) THEN FALSE
    ELSE IF yao.yue_peng THEN yao.wang_shuai \notin {"yue_sheng", "yue_ke"}
    ELSE IF truthy(yao.yue_he) THEN yao.wang_shuai \notin {"xiu", "qiu", "yue_sheng", "yue_ke"}
    ELSE TRUE

\* Whether the strength tag of a main line is written into its markers.
shows_wang_shuai(yao) ==
    IF ~(truthy(yao.wang_shuai) /\ truthy(strip(yao.wang_shuai))) THEN FALSE
    ELSE IF yao.yue_peng THEN yao.wang_shuai \notin {"xiu", "qiu", "yue_sheng", "yue_ke"}
    ELSE IF truthy(yao.yue_he) THEN yao.wang_shuai \notin {"xiu", "qiu", "yue_sheng", "yue_ke"}
    ELSE TRUE

\* if cond: marker_parts.append(marker)
marker_if(cond, marker) == IF cond THEN <<marker>> ELSE <<>>

\* main_shi_ying = yao.shi_ying_mark if yao.shi_ying_mark != " " else ""
main_shi_ying(yao) == IF yao.shi_ying_mark # " " THEN yao.shi_ying_mark ELSE ""

\* marker_parts of a main line, in the order the formatter appends them.
marker_parts(yao) ==
    marker_if(main_shi_ying(yao) # "", main_shi_ying(yao))
    \o marker_if(shows_wang_shuai(yao), yao.wang_shuai)
    \o marker_if(yao.yue_peng, "yue_po")
    \o marker_if(yao.xun_kong, "xun_kong")
    \o marker_if(yao.ri_chong,
                 IF yao.an_dong THEN "an_dong" ELSE IF yao.ri_peng THEN "ri_po" ELSE "ri_chong")
    \o marker_if(truthy(yao.yue_he),
                 IF yao.yue_he = "sheng_he" THEN "yue_sheng_he"
                 ELSE IF yao.yue_he = "ke_he" THEN "yue_ke_he"
                 ELSE IF yao.yue_he = "ping_he" THEN "yue_ping_he" ELSE "yue_he")
    \o marker_if(truthy(yao.ri_he),
                 IF yao.ri_he = "sheng_he" THEN "ri_sheng_he"
                 ELSE IF yao.ri_he = "ke_he" THEN "ri_ke_he" ELSE "ri_he")
    \o marker_if(yao.lin_ri, "lin_ri")
    \o marker_if(yao.ri_fu /\ ~yao.ri_chong, "ri_fu")
    \o marker_if(yao.ri_sheng /\ yao.ri_he # "sheng_he", "ri_sheng")
    \o marker_if(yao.ri_ke /\ yao.ri_he # "ke_he" /\ ~yao.ri_chong, "ri_ke")

\* ---------------------------------------------------------------- six_yao_divination

\* Step 3: every index of the list that lies in 1..6 marks its line.
mark_changing(liu_yao, changing_line_indices) ==
    EachLine(LAMBDA p :
        IF \E k \in DOMAIN changing_line_indices :
               changing_line_indices[k] = p /\ 1 <= changing_line_indices[k] /\ changing_line_indices[k] <= 6
        THEN [liu_yao[p] EXCEPT !.is_changing = TRUE,
                                !.change_mark = IF liu_yao[p].main_yao_type = 1 THEN "O" ELSE "X"]
        ELSE liu_yao[p])

\* Variant of flip_changing_lines that flips the first listed line only
\* (sensitivity check of C7).
flip_first_changing_line(code, changing_line_indices) ==
    IF changing_line_indices = <<>> THEN code
    ELSE LET idx == Head(changing_line_indices)
         IN  IF 1 <= idx /\ idx <= 6
             THEN [code EXCEPT ![idx] = IF code[idx] = 0 THEN 1 ELSE 0]
             ELSE code

\* Step 5: the list is walked in order and every index in 1..6 flips its bit
\* once per occurrence; an index outside 1..6 only prints a warning.
RECURSIVE flip_changing_lines(_, _)
flip_changing_lines(code, changing_line_indices) ==
    IF changing_line_indices = <<>> THEN code
    ELSE LET idx == Head(changing_line_indices)
             flipped == IF 1 <= idx /\ idx <= 6
                        THEN [code EXCEPT ![idx] = IF code[idx] = 0 THEN 1 ELSE 0]
                        ELSE code
         IN  flip_changing_lines(flipped, Tail(changing_line_indices))

palace_code_map ==
    ("qian" :> <<1, 1, 1, 1, 1, 1>> @@ "kan" :> <<0, 1, 0, 0, 1, 0>> @@
     "gen" :> <<0, 0, 1, 0, 0, 1>> @@ "zhen" :> <<1, 0, 0, 1, 0, 0>> @@
     "xun" :> <<0, 1, 1, 0, 1, 1>> @@ "li" :> <<1, 0, 1, 1, 0, 1>> @@
     "kun" :> <<0, 0, 0, 0, 0, 0>> @@ "dui" :> <<1, 1, 0, 1, 1, 0>>)

\* Step 7: the six spirits, counted from the day stem's start index.
fill_spirits(liu_yao, day_stem) ==
    EachLine(LAMBDA p :
        [liu_yao[p] EXCEPT !.spirit =
            IF day_stem \in DOMAIN DAY_STEM_TO_SPIRIT_START
            THEN SIX_SPIRITS[((DAY_STEM_TO_SPIRIT_START[day_stem] + (p - 1)) % 6) + 1]
            ELSE "wei_zhi"])

\* Step 8: strength against the month, lin_ri / ri_fu and ri_sheng / ri_ke against the day.
fill_wang_shuai(liu_yao, month_branch, day_branch) ==
    EachLine(LAMBDA p :
        LET yao == liu_yao[p]
            line_branch == IF yao.main_pillar # NoPillar THEN yao.main_pillar.branch ELSE None
            lr == checkLinRiRiFu(line_branch, day_branch)
            sk == checkRiShengRiKe(yao.main_element, day_branch)
        IN  [yao EXCEPT !.wang_shuai = getWangShuai(yao.main_element, month_branch, line_branch),
                        !.lin_ri = IF line_branch # None THEN lr[1] ELSE @,
                        !.ri_fu = IF line_branch # None THEN lr[2] ELSE @,
                        !.ri_sheng = sk[1],
                        !.ri_ke = sk[2]])

\* Step 8.5: the void branches the BaZi carries (empty strings are skipped).
xun_kong_branches_of(bazi) ==
    (IF bazi.xun_kong_1 # "" THEN {bazi.xun_kong_1} ELSE {})
    \cup (IF bazi.xun_kong_2 # "" THEN {bazi.xun_kong_2} ELSE {})

mark_xun_kong(liu_yao, bazi) ==
    EachLine(LAMBDA p :
        IF liu_yao[p].main_pillar # NoPillar /\ liu_yao[p].main_pillar.branch \in xun_kong_branches_of(bazi)
        THEN [liu_yao[p] EXCEPT !.xun_kong = TRUE]
        ELSE liu_yao[p])

\* The month-combination type step 10 gives a branch (also used for the changed branch).
yue_he_of(branch, month_branch, yue_he_branches, old) ==
    IF branch \in Range(yue_he_branches)
    THEN LET he_type == get_he_type(month_branch, branch, TRUE)
         IN  IF truthy(he_type) THEN he_type ELSE old
    ELSE IF month_branch = "chen" /\ branch \in {"yin", "mao"} THEN "ping_he"
    ELSE IF month_branch = "wei" /\ branch \in {"si", "wu"} THEN "ping_he"
    ELSE old

ri_he_of(branch, day_branch, ri_he_branches, old) ==
    IF branch \in Range(ri_he_branches)
    THEN LET he_type == get_he_type(day_branch, branch, FALSE)
         IN  IF truthy(he_type) THEN he_type ELSE old
    ELSE old

\* Variant of is_yue_wang_xiang that looks at the seasonal strength only
\* (sensitivity check of C1).
is_yue_wang_xiang_strength_only(wang_shuai, yue_he) ==
    wang_shuai \in {"yue_sheng", "yue_fu", "lin_yue"}

\* The month-strong test of step 10.
is_yue_wang_xiang(wang_shuai, yue_he) ==
    IF wang_shuai \in {"yue_sheng", "yue_fu", "lin_yue"} THEN TRUE
    ELSE IF yue_he \in {"sheng_he", "ping_he"} THEN TRUE
    ELSE FALSE

\* Variant of judge_an_dong that does not look at is_changing
\* (sensitivity check of C2).
judge_an_dong_any_line(yao) ==
    IF yao.ri_chong
    THEN IF is_yue_wang_xiang(yao.wang_shuai, yao.yue_he)
         THEN [yao EXCEPT !.an_dong = TRUE]
         ELSE [yao EXCEPT !.ri_peng = TRUE]
    ELSE yao

\* an_dong / ri_peng: only for a day-clashed line that is not changing.
judge_an_dong(yao) ==
    IF yao.ri_chong /\ ~yao.is_changing
    THEN IF is_yue_wang_xiang(yao.wang_shuai, yao.yue_he)
         THEN [yao EXCEPT !.an_dong = TRUE]
         ELSE [yao EXCEPT !.ri_peng = TRUE]
    ELSE yao

\* Variant of marker_excluded that also leaves out gui_ren
\* (sensitivity check of C22).
marker_excluded_with_gui_ren ==
    {"tai_sui", "yue_jian", "ri_chen", "yue_po", "ri_chong", "yue_he", "ri_he", "gui_ren"}

marker_excluded == {"tai_sui", "yue_jian", "ri_chen", "yue_po", "ri_chong", "yue_he", "ri_he"}

\* The short display name of a shen sha category.
marker_name_of(shen_sha_name) ==
    CASE shen_sha_name = "ri_lu" -> "lu"
      [] shen_sha_name = "hua_gai" -> "gai"
      [] shen_sha_name = "jiang_xing" -> "jiang"
      [] shen_sha_name = "jie_sha" -> "jie"
      [] shen_sha_name = "zai_sha" -> "zai"
      [] shen_sha_name = "wen_chang" -> "chang"
      [] shen_sha_name = "mou_xing" -> "mou"
      [] shen_sha_name = "ri_de" -> "de"
      [] OTHER -> shen_sha_name

\* The loop over shen_sha_map.items(): in map order, every category outside
\* marker_excluded whose branch list holds yao_branch appends its name once.
RECURSIVE append_markers(_, _, _)
append_markers(markers, items, yao_branch) ==
    IF items = <<>> THEN markers
    ELSE LET name == Head(items)[1]
             branches == Head(items)[2]
             hit == name \notin marker_excluded /\ yao_branch \in Range(branches)
                    /\ marker_name_of(name) \notin Range(markers)
         IN  append_markers(IF hit THEN Append(markers, marker_name_of(name)) ELSE markers,
                            Tail(items), yao_branch)

\* Step 10 for one line.
mark_shen_sha(yao, shen_sha_map, yue_peng_branches, ri_chong_branches, yue_he_branches, ri_he_branches, month_branch, day_branch) ==
    IF yao.main_pillar = NoPillar THEN yao
    ELSE LET yao_branch == yao.main_pillar.branch
             flagged == [yao EXCEPT
                 !.yue_peng = IF yao_branch \in Range(yue_peng_branches) THEN TRUE ELSE @,
                 !.ri_chong = IF yao_branch \in Range(ri_chong_branches) THEN TRUE ELSE @,
                 !.yue_he = yue_he_of(yao_branch, month_branch, yue_he_branches, @),
                 !.ri_he = ri_he_of(yao_branch, day_branch, ri_he_branches, @)]
             judged == judge_an_dong(flagged)
         IN  [judged EXCEPT !.shen_sha_markers = append_markers(@, shen_sha_map, yao_branch)]

\* Variant of has_changed_relations that looks at the changed pillar only
\* (sensitivity check of C5).
has_changed_relations_pillar_only(yao) ==
    yao.changed_pillar # NoPillar

\* The guard of step 10.3: the line is changing and has a changed pillar.
has_changed_relations(yao) ==
    yao.is_changing /\ yao.changed_pillar # NoPillar

\* Step 10.3 for one line: the day and month relations of the changed pillar.
mark_changed_shen_sha(yao, yue_peng_branches, ri_chong_branches, yue_he_branches, ri_he_branches, bazi) ==
    IF ~has_changed_relations(yao) THEN yao
    ELSE LET changed_branch == yao.changed_pillar.branch
             month_branch == bazi.month.branch
             day_branch == bazi.day.branch
             lr == checkLinRiRiFu(changed_branch, day_branch)
             sk == checkRiShengRiKe(yao.changed_element, day_branch)
         IN  [yao EXCEPT
                 !.changed_xun_kong = IF changed_branch \in xun_kong_branches_of(bazi) THEN TRUE ELSE @,
                 !.changed_lin_ri = lr[1],
                 !.changed_ri_fu = lr[2],
                 !.changed_ri_sheng = sk[1],
                 !.changed_ri_ke = sk[2],
                 !.changed_yue_peng = IF changed_branch \in Range(yue_peng_branches) THEN TRUE ELSE @,
                 !.changed_ri_chong = IF changed_branch \in Range(ri_chong_branches) THEN TRUE ELSE @,
                 !.changed_yue_he = yue_he_of(changed_branch, month_branch, yue_he_branches, @),
                 !.changed_ri_he = ri_he_of(changed_branch, day_branch, ri_he_branches, @)]

append_if_new(markers, m) ==
    IF truthy(m) /\ m \notin Range(markers) THEN Append(markers, m) ELSE markers

\* Step 10.5 for one line: hua jin / hua tui and hui tou sheng / ke of a changing line.
mark_transformation(yao) ==
    IF ~yao.is_changing THEN yao
    ELSE LET hua == IF yao.main_pillar # NoPillar /\ yao.changed_pillar # NoPillar
                    THEN check_hua_jin_tui(yao.main_pillar.branch, yao.changed_pillar.branch)
                    ELSE None
             hui == IF yao.main_element # "" /\ yao.changed_element # ""
                    THEN check_hui_tou_sheng_ke(yao.main_element, yao.changed_element)
                    ELSE None
         IN  [yao EXCEPT !.shen_sha_markers = append_if_new(append_if_new(@, hua), hui)]

\* What stands for "no result_json" when the call raised.
NoResultJson == [raised |-> TRUE]

hexagram_info_json(info) ==
    [palace |-> info.palace_type, name |-> info.name,
     structure_type |-> info.structure_type, five_element |-> info.five_element]

\* six_yao_divination(main_hexagram_code, bazi, changing_line_indices) run against
\* the shen sha cache `cache`.  The outcome is [status, liu_yao, result_json, cache]:
\* status "returned", or "KeyError" when a HEXAGRAM_MAP lookup misses (then nothing
\* is returned).  A key that the source leaves out of result_json is None here.
six_yao_divination(main_hexagram_code, bazi, changing_line_indices, cache) ==
    IF main_hexagram_code \notin DOMAIN HEXAGRAM_MAP
    THEN [status |-> "KeyError", liu_yao |-> <<>>, result_json |-> NoResultJson, cache |-> cache]
    ELSE
    LET main_info == HEXAGRAM_MAP[main_hexagram_code]
        \* steps 1-4
        s1 == generate_tian_gan_and_di_zhi(
                  initialize_yao_details_vector(main_info, changing_line_indices), main_info, 0)
        s2 == EachLine(LAMBDA p : [s1[p] EXCEPT !.main_yao_type = main_hexagram_code[p]])
        s3 == mark_changing(s2, changing_line_indices)
        main_palace_element == main_info.five_element
        s4 == fill_element_and_relative(s3, main_palace_element, TRUE)
        \* step 5
        has_changed == changing_line_indices # <<>>
        changed_hexagram_code == flip_changing_lines(main_hexagram_code, changing_line_indices)
    IN
    IF has_changed /\ changed_hexagram_code \notin DOMAIN HEXAGRAM_MAP
    THEN [status |-> "KeyError", liu_yao |-> <<>>, result_json |-> NoResultJson, cache |-> cache]
    ELSE
    LET changed_info == HEXAGRAM_MAP[changed_hexagram_code]
        s5 == IF has_changed
              THEN fill_element_and_relative(
                       generate_tian_gan_and_di_zhi(s4, changed_info, 1), main_palace_element, FALSE)
              ELSE s4
        \* step 6
        s6 == IF main_info.palace_type \in DOMAIN palace_code_map
              THEN calculate_hidden_gods(HEXAGRAM_MAP[palace_code_map[main_info.palace_type]],
                                         main_palace_element, s5)
              ELSE s5
        \* steps 7-8.5
        month_branch == bazi.month.branch
        day_branch == bazi.day.branch
        s7 == fill_spirits(s6, bazi.day.stem)
        s8 == mark_xun_kong(fill_wang_shuai(s7, month_branch, day_branch), bazi)
        \* step 9
        built == build_shen_sha_map(bazi, cache)
        shen_sha_map == built.map
        \* step 10
        yue_peng_branches == dict_get(shen_sha_map, "yue_po")
        ri_chong_branches == dict_get(shen_sha_map, "ri_chong")
        yue_he_branches == dict_get(shen_sha_map, "yue_he")
        ri_he_branches == dict_get(shen_sha_map, "ri_he")
        s10 == EachLine(LAMBDA p :
                   mark_shen_sha(s8[p], shen_sha_map, yue_peng_branches, ri_chong_branches,
                                 yue_he_branches, ri_he_branches, month_branch, day_branch))
        \* step 10.3
        s10_3 == EachLine(LAMBDA p :
                   mark_changed_shen_sha(s10[p], yue_peng_branches, ri_chong_branches,
                                         yue_he_branches, ri_he_branches, bazi))
        \* step 10.5
        s10_5 == EachLine(LAMBDA p : mark_transformation(s10_3[p]))
        \* step 10.6
        san_he_ju_result == check_san_he_ju(s10_5, bazi)
    IN  [status |-> "returned",
         liu_yao |-> s10_5,
         result_json |->
            [ba_zi |-> [year |-> to_string(bazi.year), month |-> to_string(bazi.month),
                        day |-> to_string(bazi.day), hour |-> to_string(bazi.hour),
                        xun_kong_1 |-> IF bazi.xun_kong_1 # "" THEN bazi.xun_kong_1 ELSE None,
                        xun_kong_2 |-> IF bazi.xun_kong_2 # "" THEN bazi.xun_kong_2 ELSE None],
             san_he_ju |-> san_he_ju_result,
             ben_gua_name |-> get_detailed_name(main_info),
             ben_gua_info |-> hexagram_info_json(main_info),
             bian_gua_name |-> IF has_changed THEN get_detailed_name(changed_info) ELSE <<>>,
             bian_gua_info |-> IF has_changed THEN hexagram_info_json(changed_info)
                               ELSE hexagram_info_json([palace_type |-> None, name |-> None,
                                                        structure_type |-> None, five_element |-> None]),
             shen_sa |-> shen_sha_map,
             yao |-> EachLine(LAMBDA p : to_dict(s10_5[p]))],
         cache |-> built.cache]

\* ---------------------------------------------------------------- the caller

\* Bounds of the model.
MaxChangingLen == 2       \* longest changing-line list of the hexagram sweep
DateChangingLen == 1      \* longest changing-line list of the date sweep
MaxCalls == 3             \* most calls one process makes in a call sequence

\* The values a changing-line list is drawn from: the six positions and the
\* nearest value out of range on either side.
ChangeValues == {0, 1, 2, 3, 4, 5, 6, 7}

SeqUpTo(S, n) == UNION {[1..k -> S] : k \in 0..n}

AllCodes == [1..6 -> {0, 1}]

\* BaZi built as test_liu_yao.parse_bazi builds it: void branches from the day pillar.
parse_bazi(year, month, day, hour) ==
    BaZi(year, month, day, hour, calculate_xun_kong(day)[1], calculate_xun_kong(day)[2])

\* The BaZi of the module docstring and of test_san_he_ju (built without void branches).
DocBaZi == BaZi(Pillar("yi", "si"), Pillar("ding", "hai"), Pillar("jia", "zi"), Pillar("jia", "xu"), "", "")
TestBaZi1 == BaZi(Pillar("yi", "si"), Pillar("ding", "hai"), Pillar("ji", "chou"), Pillar("jia", "xu"), "", "")

Call(code, bazi, changing) ==
    [main_hexagram_code |-> code, bazi |-> bazi, changing_line_indices |-> changing]

\* Every hexagram, with every short changing-line list (valid or not).
HexagramSweep ==
    {Call(code, bazi, changing) :
        code \in AllCodes, bazi \in {DocBaZi},
        changing \in SeqUpTo(ChangeValues, MaxChangingLen)}

\* The eight palace hexagrams (which carry all twelve branches) on every month
\* branch and day branch.
DateSweep ==
    {Call(code, parse_bazi(Pillar("yi", "si"), Pillar("ding", mb), Pillar("ji", db), Pillar("jia", "xu")),
          changing) :
        code \in Range(palace_code_map),
        mb \in Range(valid_branches), db \in Range(valid_branches),
        changing \in SeqUpTo(1..6, DateChangingLen)}

\* The sixty day pillars of the sexagenary cycle: stem and branch of the same
\* parity.
SexagenaryPillars ==
    {Pillar(valid_stems[sb[1]], valid_branches[sb[2]]) :
        sb \in {p \in (DOMAIN valid_stems) \X (DOMAIN valid_branches) : p[1] % 2 = p[2] % 2}}

\* Qian and kun, which between them carry all twelve branches, on every day
\* pillar of the cycle.
DayPillarSweep ==
    {Call(code, parse_bazi(Pillar("yi", "si"), Pillar("ding", "hai"), day, Pillar("jia", "xu")), <<>>) :
        code \in {<<1, 1, 1, 1, 1, 1>>, <<0, 0, 0, 0, 0, 0>>}, day \in SexagenaryPillars}

\* Two hexagrams in which two lines carry the same branch (tian shan dun has wu
\* on lines 2 and 4, feng di guan has wei on lines 1 and 4 and mao on lines 3
\* and 6), with two of the upper lines changing, on every month branch and on
\* the two day branches that clash the shared branches.
SharedBranchSweep ==
    {Call(code, parse_bazi(Pillar("yi", "si"), Pillar("ding", mb), Pillar("ji", db), Pillar("jia", "xu")),
          <<a, b>>) :
        code \in {<<0, 0, 1, 1, 1, 1>>, <<0, 0, 0, 0, 1, 1>>},
        mb \in Range(valid_branches), db \in {"zi", "you"},
        a \in {4, 5, 6}, b \in {4, 5, 6}}

\* A few divinations one process repeats and interleaves: two that share a
\* shen-sha cache key, others on another day, another month and another year.
RepeatedCalls ==
    {Call(<<1, 1, 1, 1, 1, 1>>, DocBaZi, <<1>>),
     Call(<<0, 0, 0, 0, 0, 0>>, DocBaZi, <<>>),
     Call(<<1, 1, 1, 1, 1, 1>>, TestBaZi1, <<1>>),
     Call(<<1, 0, 1, 0, 1, 0>>,
          parse_bazi(Pillar("yi", "si"), Pillar("wug", "yin"), Pillar("geng", "shen"), Pillar("jia", "xu")),
          <<2, 5>>),
     Call(<<0, 1, 0, 0, 1, 0>>,
          parse_bazi(Pillar("bing", "wu"), Pillar("ding", "hai"), Pillar("jia", "zi"), Pillar("jia", "xu")),
          <<3, 7>>)}

\* The call sequences of one process: up to MaxCalls of the repeated calls.
CallSequences == UNION {[1..k -> RepeatedCalls] : k \in 2..MaxCalls}

VARIABLES
    pending,          \* the calls the process has still to make, in order
    shen_sha_cache,   \* liu_yao._shen_sha_cache
    status,           \* "idle" before the first call, then the last call's outcome
    last_call,        \* the arguments of the last call
    liu_yao,          \* the list the last call returned
    result_json,      \* the summary the last call returned
    seen,             \* history: what each call made so far returned the first time
    history,          \* history: the calls made so far, in order
    display,          \* the main-line markers the formatter writes for the last result
    heap_lists,       \* the list objects of the maps built so far, by identity
    heap_maps,        \* the dict objects built so far: (key, list identity) pairs
    cache_refs,       \* liu_yao._shen_sha_cache as references: cache key -> dict identity
    threads,          \* the callers of build_shen_sha_map: position, arguments, result
    sys_stdout,       \* sys.stdout: the stream print() writes to, by identity
    streams,          \* the lines written so far to each stream
    formatters        \* the callers of _format_result_header: position, locals

divination_vars ==
    <<pending, shen_sha_cache, status, last_call, liu_yao, result_json, seen, history, display>>

cache_vars == <<heap_lists, heap_maps, cache_refs, threads>>

format_vars == <<sys_stdout, streams, formatters>>

vars == <<divination_vars, cache_vars, format_vars>>

\* The stream sys.stdout is when the process starts, by identity.
console == <<"", "console">>

Outcome(s, l, r) == [status |-> s, liu_yao |-> l, result_json |-> r]

NoCall == Call(<<>>, DocBaZi, <<>>)

Init ==
    /\ pending \in {<<c>> : c \in HexagramSweep \cup DateSweep \cup SharedBranchSweep
                                   \cup DayPillarSweep}
                    \cup CallSequences
    /\ shen_sha_cache = <<>>
    /\ status = "idle"
    /\ last_call = NoCall
    /\ liu_yao = <<>>
    /\ result_json = NoResultJson
    /\ seen = <<>>
    /\ history = <<>>
    /\ display = <<>>
    /\ heap_lists = <<>>
    /\ heap_maps = <<>>
    /\ cache_refs = <<>>
    /\ threads = <<>>
    /\ sys_stdout = console
    /\ streams = (console :> <<>>)
    /\ formatters = <<>>

\* The process makes its next call of six_yao_divination.
Divine ==
    /\ pending # <<>>
    /\ LET c == Head(pending)
       IN  \E r \in {six_yao_divination(c.main_hexagram_code, c.bazi,
                                         c.changing_line_indices, shen_sha_cache)} :
               /\ status' = r.status
               /\ liu_yao' = r.liu_yao
               /\ result_json' = r.result_json
               /\ shen_sha_cache' = r.cache
               /\ last_call' = c
               /\ display' = [p \in DOMAIN r.liu_yao |-> marker_parts(r.liu_yao[p])]
               /\ seen' = IF c \in DOMAIN seen
                             THEN seen
                             ELSE (c :> Outcome(r.status, r.liu_yao, r.result_json)) @@ seen
    /\ pending' = Tail(pending)
    /\ history' = Append(history, Head(pending))
    /\ UNCHANGED <<cache_vars, format_vars>>

Next == Divine

Spec == Init /\ [][Next]_vars

\* ---------------------------------------------------------------- build_shen_sha_map, shared objects
\* build_shen_sha_map step by step, on dict and list objects that have an
\* identity: the callers run concurrently, keep the map they were given and
\* may change it.

MaxCallsPerThread == 2

Threads == {"t1", "t2"}

\* The BaZi the callers ask for: the two differ in the day pillar only.
CacheBaZis == {DocBaZi, TestBaZi1}

Programs == UNION {[1..k -> CacheBaZis] : k \in 1..MaxCallsPerThread}

\* Identities: a dict object is named by the caller, the number of that
\* caller's call and its role in the call ("result", the dict the miss branch
\* builds; "cached", the copy it stores; "copy", the copy the hit branch
\* returns); a list object by its dict and the item it was created for.
object_id(t, role) == <<t, Len(threads[t].program), role>>

NoObject == <<"", 0, "">>

\* A new dict object `id` with a new list object per item: the heap
\* afterwards.  `value` is a sequence of <<key, list>> pairs.
new_map_object(lists, maps, id, value) ==
    [lists |-> [l \in {<<id, i>> : i \in DOMAIN value} |-> value[l[2]][2]] @@ lists,
     maps |-> (id :> [i \in DOMAIN value |-> <<value[i][1], <<id, i>> >>]) @@ maps]

\* What a dict object holds, lists read through their identities.
map_value(lists, maps, id) ==
    [i \in DOMAIN maps[id] |-> <<maps[id][i][1], lists[maps[id][i][2]]>>]

\* Variant of copy_map_object that copies the dict and shares its lists,
\* {k: v for k, v in d.items()} (sensitivity check of C25).
copy_map_object_sharing_lists(lists, maps, new_id, id) ==
    [lists |-> lists, maps |-> (new_id :> maps[id]) @@ maps]

\* {k: v[:] for k, v in d.items()}: a new dict whose lists are new copies.
copy_map_object(lists, maps, new_id, id) ==
    new_map_object(lists, maps, new_id, map_value(lists, maps, id))

\* The changes a caller makes to a map it was given.
ChangeKinds == {"append", "edit", "remove"}

\* The item a caller changes: the last one (gui_ren, the list of two branches).
ChangedItems == {10}

\* The heap after the change `kind` to item `e` of the dict `id`:
\* d[k].append("zi"), d[k][0] = "hai", del d[k].
change_map_object(lists, maps, id, kind, e) ==
    LET lid == maps[id][e][2]
    IN  IF kind = "append"
        THEN [lists |-> [lists EXCEPT ![lid] = Append(@, "zi")], maps |-> maps]
        ELSE IF kind = "edit"
        THEN [lists |-> [lists EXCEPT ![lid] = [@ EXCEPT ![1] = "hai"]], maps |-> maps]
        ELSE [lists |-> lists,
              maps |-> [maps EXCEPT ![id] = SubSeq(@, 1, e - 1) \o SubSeq(@, e + 1, Len(@))]]

\* The heap without the objects nothing refers to any more: the dicts in
\* `live` stay, and the lists they hold.
collect_garbage(lists, maps, live) ==
    LET kept == [id \in live \cap DOMAIN maps |-> maps[id]]
    IN  [lists |-> [l \in UNION {{kept[id][i][2] : i \in DOMAIN kept[id]} : id \in DOMAIN kept}
                        |-> lists[l]],
         maps |-> kept]

\* The cache keys of which some caller has changed a map it was given.
ChangedKeys == UNION {threads[t].changed_keys : t \in DOMAIN threads}

CacheInit ==
    /\ pending = <<>>
    /\ shen_sha_cache = <<>>
    /\ status = "idle"
    /\ last_call = NoCall
    /\ liu_yao = <<>>
    /\ result_json = NoResultJson
    /\ seen = <<>>
    /\ history = <<>>
    /\ display = <<>>
    /\ heap_lists = <<>>
    /\ heap_maps = <<>>
    /\ cache_refs = <<>>
    /\ threads \in [Threads -> {[pc |-> "idle", program |-> p, bazi |-> DocBaZi, result |-> NoObject,
                                  returned |-> <<>>, hit |-> FALSE, changed |-> FALSE,
                                  after_change |-> FALSE, changed_keys |-> {}] : p \in Programs}]
    /\ sys_stdout = console
    /\ streams = (console :> <<>>)
    /\ formatters = <<>>

\* `if cache_key in _shen_sha_cache`, at the start of the caller's next call;
\* the caller lets go of the map its previous call gave it.
CheckCache(t) ==
    /\ threads[t].pc \in {"idle", "returned"}
    /\ threads[t].program # <<>>
    /\ LET bazi == Head(threads[t].program)
           found == cache_key(bazi) \in DOMAIN cache_refs
       IN  threads' = [threads EXCEPT ![t] =
               [@ EXCEPT !.pc = IF found THEN "hit" ELSE "miss",
                         !.program = Tail(@), !.bazi = bazi, !.result = NoObject, !.returned = <<>>,
                         !.hit = found, !.changed = FALSE,
                         !.after_change = cache_key(bazi) \in ChangedKeys]]
    /\ \E r \in {collect_garbage(heap_lists, heap_maps,
                                   {cache_refs[k] : k \in DOMAIN cache_refs}
                                       \cup {threads[u].result : u \in Threads \ {t}})} :
           /\ heap_lists' = r.lists
           /\ heap_maps' = r.maps
    /\ UNCHANGED <<divination_vars, cache_refs, format_vars>>

\* The hit branch: return a copy of the cached map.
ReturnCopy(t) ==
    /\ threads[t].pc = "hit"
    /\ \E r \in {copy_map_object(heap_lists, heap_maps, object_id(t, "copy"),
                                   cache_refs[cache_key(threads[t].bazi)])} :
           /\ heap_lists' = r.lists
           /\ heap_maps' = r.maps
           /\ threads' = [threads EXCEPT ![t] =
                  [@ EXCEPT !.pc = "returned", !.result = object_id(t, "copy"),
                            !.returned = map_value(r.lists, r.maps, object_id(t, "copy"))]]
    /\ UNCHANGED <<divination_vars, cache_refs, format_vars>>

\* The miss branch up to `result = dict(shen_sha_definition_map)`.
Compute(t) ==
    /\ threads[t].pc = "miss"
    /\ \E r \in {new_map_object(heap_lists, heap_maps, object_id(t, "result"),
                                  compute_shen_sha_map(threads[t].bazi))} :
           /\ heap_lists' = r.lists
           /\ heap_maps' = r.maps
           /\ threads' = [threads EXCEPT ![t] =
                  [@ EXCEPT !.pc = "computed", !.result = object_id(t, "result")]]
    /\ UNCHANGED <<divination_vars, cache_refs, format_vars>>

\* `_shen_sha_cache[cache_key] = {copy}` and `return result`.
StoreAndReturn(t) ==
    /\ threads[t].pc = "computed"
    /\ \E r \in {copy_map_object(heap_lists, heap_maps, object_id(t, "cached"), threads[t].result)} :
           /\ heap_lists' = r.lists
           /\ heap_maps' = r.maps
           /\ cache_refs' = (cache_key(threads[t].bazi) :> object_id(t, "cached")) @@ cache_refs
           /\ threads' = [threads EXCEPT ![t] =
                  [@ EXCEPT !.pc = "returned",
                            !.returned = map_value(heap_lists, heap_maps, threads[t].result)]]
    /\ UNCHANGED <<divination_vars, format_vars>>

\* The caller changes the map it was given (the one six_yao_divination also
\* stores as result_json["shen_sa"]).
ChangeReturnedMap(t) ==
    /\ threads[t].pc = "returned"
    /\ ~threads[t].changed
    /\ \E kind \in ChangeKinds, e \in ChangedItems :
           /\ e <= Len(heap_maps[threads[t].result])
           /\ \E r \in {change_map_object(heap_lists, heap_maps, threads[t].result, kind, e)} :
                  /\ heap_lists' = r.lists
                  /\ heap_maps' = r.maps
    /\ threads' = [threads EXCEPT ![t] =
           [@ EXCEPT !.changed = TRUE,
                     !.changed_keys = @ \cup {cache_key(threads[t].bazi)}]]
    /\ UNCHANGED <<divination_vars, cache_refs, format_vars>>

CacheNext ==
    \E t \in Threads :
        \/ CheckCache(t)
        \/ ReturnCopy(t)
        \/ Compute(t)
        \/ StoreAndReturn(t)
        \/ ChangeReturnedMap(t)

CacheSpec == CacheInit /\ [][CacheNext]_vars

\* ---------------------------------------------------------------- _format_result_header, sys.stdout
\* Two requests format their results at the same time.  Each redirects the
\* process-wide sys.stdout to a buffer of its own, lets
\* display_shen_sha_definitions print into whatever sys.stdout is at each
\* print, takes the buffer's text and puts back the stream it saved.

\* The results the two requests format: the shen sha maps of these dates.
FormatBaZis == {DocBaZi, TestBaZi1}

shen_sha_order == <<"yang_ren", "tao_hua", "yi_ma", "gui_ren">>

\* The lines display_shen_sha_definitions(shen_sa) prints, in order: one per
\* name of shen_sha_order that the map holds with a non-empty list, as
\* (name, list).
display_shen_sha_definitions(shen_sa) ==
    SelectSeq([i \in DOMAIN shen_sha_order |->
                  <<shen_sha_order[i], dict_get(shen_sa, shen_sha_order[i])>>],
              LAMBDA line : dict_has(shen_sa, line[1]) /\ line[2] # <<>>)

\* buffer = io.StringIO(): the stream object the call of thread t creates.
buffer(t) == <<t, "buffer">>

NoStream == <<"", "">>

FormatInit ==
    /\ pending = <<>>
    /\ shen_sha_cache = <<>>
    /\ status = "idle"
    /\ last_call = NoCall
    /\ liu_yao = <<>>
    /\ result_json = NoResultJson
    /\ seen = <<>>
    /\ history = <<>>
    /\ display = <<>>
    /\ heap_lists = <<>>
    /\ heap_maps = <<>>
    /\ cache_refs = <<>>
    /\ threads = <<>>
    /\ sys_stdout = console
    /\ streams = (console :> <<>>)
    /\ formatters \in [Threads -> {[pc |-> "start", shen_sa |-> compute_shen_sha_map(bazi),
                                     old_stdout |-> NoStream, printed |-> 0,
                                     shen_sha_output |-> <<>>] : bazi \in FormatBaZis}]

\* old_stdout = sys.stdout
SaveStdout(t) ==
    /\ formatters[t].pc = "start"
    /\ formatters' = [formatters EXCEPT ![t].pc = "saved", ![t].old_stdout = sys_stdout]
    /\ UNCHANGED <<divination_vars, cache_vars, sys_stdout, streams>>

\* sys.stdout = buffer = io.StringIO()
Redirect(t) ==
    /\ formatters[t].pc = "saved"
    /\ sys_stdout' = buffer(t)
    /\ streams' = (buffer(t) :> <<>>) @@ streams
    /\ formatters' = [formatters EXCEPT ![t].pc = "printing"]
    /\ UNCHANGED <<divination_vars, cache_vars>>

\* One print(...) of display_shen_sha_definitions: the line goes to the stream
\* sys.stdout is at this moment.
PrintLine(t) ==
    /\ formatters[t].pc = "printing"
    /\ formatters[t].printed < Len(display_shen_sha_definitions(formatters[t].shen_sa))
    /\ streams' = [streams EXCEPT ![sys_stdout] =
                      Append(@, display_shen_sha_definitions(formatters[t].shen_sa)[formatters[t].printed + 1])]
    /\ formatters' = [formatters EXCEPT ![t].printed = @ + 1]
    /\ UNCHANGED <<divination_vars, cache_vars, sys_stdout>>

\* shen_sha_output = buffer.getvalue(), after the last print
GetValue(t) ==
    /\ formatters[t].pc = "printing"
    /\ formatters[t].printed = Len(display_shen_sha_definitions(formatters[t].shen_sa))
    /\ formatters' = [formatters EXCEPT ![t].pc = "got", ![t].shen_sha_output = streams[buffer(t)]]
    /\ UNCHANGED <<divination_vars, cache_vars, sys_stdout, streams>>

\* finally: sys.stdout = old_stdout; the header with shen_sha_output is returned
Restore(t) ==
    /\ formatters[t].pc = "got"
    /\ sys_stdout' = formatters[t].old_stdout
    /\ formatters' = [formatters EXCEPT ![t].pc = "done"]
    /\ UNCHANGED <<divination_vars, cache_vars, streams>>

FormatNext ==
    \E t \in Threads :
        \/ SaveStdout(t)
        \/ Redirect(t)
        \/ PrintLine(t)
        \/ GetValue(t)
        \/ Restore(t)

FormatSpec == FormatInit /\ [][FormatNext]_vars

----------------------------------------------------------------------------
\* Properties of the returned lines and summary.

Lines == {liu_yao[p] : p \in DOMAIN liu_yao}

\* C1: a line that the day clashes and that is not changing is an_dong exactly
\* when its wang_shuai is yue_sheng, yue_fu or lin_yue, or its yue_he is
\* sheng_he or ping_he; otherwise it is ri_peng; exactly one of the two flags
\* is set on such a line.
C1_ClashedStaticLine ==
    \A yao \in Lines :
        (yao.ri_chong /\ ~yao.is_changing) =>
            /\ yao.an_dong <=> (\/ yao.wang_shuai \in {"yue_sheng", "yue_fu", "lin_yue"}
                                \/ yao.yue_he \in {"sheng_he", "ping_he"})
            /\ yao.ri_peng <=> ~yao.an_dong

\* A clashed static line that is an_dong through its month combination alone.
C1_Witness ==
    \E yao \in Lines :
        /\ yao.ri_chong /\ ~yao.is_changing /\ yao.an_dong
        /\ yao.wang_shuai \notin {"yue_sheng", "yue_fu", "lin_yue"}
        /\ yao.yue_he \in {"sheng_he", "ping_he"}

\* C2: no line is both an_dong and ri_peng, and a line that is an_dong or
\* ri_peng is day-clashed and not changing.
C2_AnDongRiPengExclusive ==
    \A yao \in Lines :
        /\ ~(yao.an_dong /\ yao.ri_peng)
        /\ (yao.an_dong \/ yao.ri_peng) => (yao.ri_chong /\ ~yao.is_changing)

\* A changing line that the day clashes (neither flag is set on it), next to
\* a static clashed line that carries one of the flags.
C2_Witness ==
    /\ \E yao \in Lines : yao.ri_chong /\ yao.is_changing /\ ~yao.an_dong /\ ~yao.ri_peng
    /\ \E yao \in Lines : yao.ri_chong /\ ~yao.is_changing /\ (yao.an_dong \/ yao.ri_peng)

\* The hexagram of the last call and the pure hexagram of its palace.
LastMainInfo == HEXAGRAM_MAP[last_call.main_hexagram_code]
LastBaseInfo == HEXAGRAM_MAP[palace_code_map[LastMainInfo.palace_type]]

\* The kinship role, reckoned against the palace element of the main hexagram,
\* of line p of the palace's pure hexagram.
BaseRole(p) ==
    get_relative(LastMainInfo.five_element, branchFiveElements[na_jia_pillar(LastBaseInfo, p).branch])

MainRoles == {yao.main_relative : yao \in Lines}
HiddenRoles == {yao.hidden_relative : yao \in {y \in Lines : y.hidden_pillar # NoPillar}}

\* C3: line p carries a hidden pillar exactly when the role of line p of the
\* palace's pure hexagram is not among the roles of the main lines; a line
\* without a hidden pillar has no hidden element and no hidden role.
C3_HiddenIffRoleMissing ==
    status = "returned" =>
        \A p \in DOMAIN liu_yao :
            /\ (liu_yao[p].hidden_pillar # NoPillar) <=> (BaseRole(p) \notin MainRoles)
            /\ liu_yao[p].hidden_pillar # NoPillar =>
                   /\ liu_yao[p].hidden_pillar = na_jia_pillar(LastBaseInfo, p)
                   /\ liu_yao[p].hidden_relative = BaseRole(p)
            /\ liu_yao[p].hidden_pillar = NoPillar =>
                   /\ liu_yao[p].hidden_element = ""
                   /\ liu_yao[p].hidden_relative = ""

\* A result where one line carries a hidden pillar and another line, whose
\* pure-hexagram role the main lines already hold, carries none.
C3_Witness ==
    /\ status = "returned"
    /\ \E p \in DOMAIN liu_yao : liu_yao[p].hidden_pillar # NoPillar /\ BaseRole(p) \notin MainRoles
    /\ \E p \in DOMAIN liu_yao : liu_yao[p].hidden_pillar = NoPillar /\ BaseRole(p) \in MainRoles

\* C4: main roles and hidden roles together cover all five roles; every role
\* the main lines lack is supplied by exactly one hidden line; when the main
\* lines cover all five roles no line has a hidden pillar.
C4_HiddenCompletesRoles ==
    status = "returned" =>
        /\ MainRoles \cup HiddenRoles = Range(RELATIVE_NAMES)
        /\ \A role \in Range(RELATIVE_NAMES) \ MainRoles :
               Cardinality({p \in DOMAIN liu_yao :
                               liu_yao[p].hidden_pillar # NoPillar
                               /\ liu_yao[p].hidden_relative = role}) = 1
        /\ MainRoles = Range(RELATIVE_NAMES) =>
               \A p \in DOMAIN liu_yao : liu_yao[p].hidden_pillar = NoPillar

\* A result whose main lines lack two roles, each supplied by a hidden line.
C4_Witness ==
    /\ status = "returned"
    /\ Cardinality(Range(RELATIVE_NAMES) \ MainRoles) = 2
    /\ Cardinality({p \in DOMAIN liu_yao : liu_yao[p].hidden_pillar # NoPillar}) = 2

\* The changed_* flags of a line are all at their defaults.
ChangedFlagsDefault(yao) ==
    /\ ~yao.changed_xun_kong /\ ~yao.changed_yue_peng /\ ~yao.changed_ri_peng
    /\ ~yao.changed_ri_chong /\ yao.changed_yue_he = None /\ yao.changed_ri_he = None
    /\ ~yao.changed_lin_ri /\ ~yao.changed_ri_fu /\ ~yao.changed_ri_sheng
    /\ ~yao.changed_ri_ke /\ ~yao.changed_an_dong

\* The line has no changed pillar, no changed element and no changed role.
NoChangedData(yao) ==
    yao.changed_pillar = NoPillar /\ yao.changed_element = "" /\ yao.changed_relative = ""

\* The changing-line list of the last call holds positions 1..6 only.
LastListInRange ==
    \A i \in DOMAIN last_call.changing_line_indices : last_call.changing_line_indices[i] \in 1..6

\* C5 as stated: a changing line has a changed pillar; a line that is not
\* changing has no changed pillar, element or role and default changed_* flags,
\* also when other lines change.  (Stated for calls whose list is in range, so
\* that a violation does not rest on an out-of-range value.)
C5_ChangedDataOnlyOnChangingLines ==
    LastListInRange =>
        \A yao \in Lines :
            /\ yao.is_changing => yao.changed_pillar # NoPillar
            /\ ~yao.is_changing => NoChangedData(yao) /\ ChangedFlagsDefault(yao)

\* C5 as amended: a changing line has a changed pillar; a line that is not
\* changing has default changed_* flags; changed pillar, element and role are
\* absent from every line when the changing-line list is empty and present on
\* every line, changing or not, when it is not empty.
C5_ChangedDataOnEveryLine ==
    \A p \in DOMAIN liu_yao :
        LET yao == liu_yao[p]
        IN  /\ yao.is_changing => yao.changed_pillar # NoPillar
            /\ ~yao.is_changing => ChangedFlagsDefault(yao)
            /\ last_call.changing_line_indices = <<>> => NoChangedData(yao)
            /\ last_call.changing_line_indices # <<>> =>
                   /\ yao.changed_pillar =
                          na_jia_pillar(HEXAGRAM_MAP[flip_changing_lines(
                              last_call.main_hexagram_code, last_call.changing_line_indices)], p)
                   /\ yao.changed_element = branchFiveElements[yao.changed_pillar.branch]
                   /\ yao.changed_relative =
                          get_relative(LastMainInfo.five_element, yao.changed_element)

\* A result with a changing line whose changed pillar carries a day or month
\* relation, next to a line that is not changing and has a changed pillar.
C5_Witness ==
    /\ \E yao \in Lines : yao.is_changing /\ ~ChangedFlagsDefault(yao)
    /\ \E yao \in Lines : ~yao.is_changing /\ yao.changed_pillar # NoPillar
                            /\ ChangedFlagsDefault(yao)

\* C6: a call whose changing-line list holds a value outside 1..6 is rejected
\* with a validation error: the value is not silently ignored and no result
\* is returned.
C6_OutOfRangeRejected ==
    (status # "idle" /\ ~LastListInRange) =>
        /\ status # "returned"
        /\ liu_yao = <<>>
        /\ result_json = NoResultJson

\* The code obtained from `code` by flipping exactly the bits at `positions`.
FlipExactly(code, positions) ==
    [p \in 1..6 |-> IF p \in positions THEN 1 - code[p] ELSE code[p]]

\* The last call's list is non-empty, duplicate-free and within 1..6.
LastListProper ==
    LET l == last_call.changing_line_indices
    IN  /\ l # <<>>
        /\ LastListInRange
        /\ \A i, j \in DOMAIN l : l[i] = l[j] => i = j

\* The code of the changed hexagram the result reports, found by its name.
ReportedChangedCode ==
    CHOOSE c \in DOMAIN HEXAGRAM_MAP : HEXAGRAM_MAP[c].name = result_json.bian_gua_info.name

\* C7: for a non-empty, duplicate-free list of positions within 1..6 the
\* changed hexagram of the result is the catalog entry of the main code with
\* exactly the listed bits flipped (111111 with [1] gives 011111, tian feng
\* gou), and the same flip applied to the changed code gives back the main code.
C7_ChangedHexagramIsFlip ==
    (status = "returned" /\ LastListProper) =>
        LET main == last_call.main_hexagram_code
            l == last_call.changing_line_indices
            expected == FlipExactly(main, Range(l))
        IN  /\ result_json.bian_gua_info = hexagram_info_json(HEXAGRAM_MAP[expected])
            /\ result_json.bian_gua_name = get_detailed_name(HEXAGRAM_MAP[expected])
            /\ ReportedChangedCode = expected
            /\ flip_changing_lines(ReportedChangedCode, l) = main
            /\ (main = <<1, 1, 1, 1, 1, 1>> /\ l = <<1>>) =>
                   /\ expected = <<0, 1, 1, 1, 1, 1>>
                   /\ result_json.bian_gua_info.name = "tian_feng_gou"

\* A result for two distinct changing positions.
C7_Witness ==
    /\ status = "returned" /\ LastListProper
    /\ Len(last_call.changing_line_indices) = 2
    /\ result_json.bian_gua_name # <<>>

\* The catalog's keys are the 64 six-bit codes.
CatalogHasEveryCode ==
    /\ DOMAIN HEXAGRAM_MAP = [1..6 -> {0, 1}]
    /\ Cardinality(DOMAIN HEXAGRAM_MAP) = 64

\* No two codes of the catalog share a name.
CatalogNamesDistinct ==
    \A c1, c2 \in DOMAIN HEXAGRAM_MAP :
        HEXAGRAM_MAP[c1].name = HEXAGRAM_MAP[c2].name => c1 = c2

\* C8: the catalog has an entry for each of the 64 six-bit codes, no two codes
\* share a name, and no call misses a catalog lookup.
C8_CatalogComplete ==
    /\ CatalogHasEveryCode
    /\ CatalogNamesDistinct
    /\ status # "KeyError"

\* A returned call of kun (000000) whose list flips two lines, so that both the
\* main and the changed lookup were made.
C8_Witness ==
    /\ status = "returned"
    /\ last_call.main_hexagram_code = <<0, 0, 0, 0, 0, 0>>
    /\ last_call.changing_line_indices = <<6, 3>>
    /\ result_json.ben_gua_info.name # result_json.bian_gua_info.name

\* C9: a call returns the line list and summary that the same call returned
\* the first time in this process, whether the shen sha cache was filled or
\* read and whatever calls were made in between.
C9_RepeatedCallSameResult ==
    status # "idle" =>
        /\ last_call \in DOMAIN seen
        /\ Outcome(status, liu_yao, result_json) = seen[last_call]

\* The third call of a process repeats its first call after a call on another
\* date: the first call filled the cache entry that the third call read.
C9_Witness ==
    /\ Len(history) = 3
    /\ history[3] = history[1]
    /\ cache_key(history[2].bazi) # cache_key(history[1].bazi)
    /\ cache_key(history[1].bazi) \in DOMAIN shen_sha_cache
    /\ status = "returned"

\* Branch b is the day branch, the month branch, the main branch of a line
\* that is changing or an_dong, or the changed branch of a changing line.
BranchSupplied(b) ==
    \/ b = last_call.bazi.day.branch
    \/ b = last_call.bazi.month.branch
    \/ \E yao \in Lines : yao.main_pillar.branch = b /\ (yao.is_changing \/ yao.an_dong)
    \/ \E yao \in Lines : yao.is_changing /\ yao.changed_pillar.branch = b

\* Branch b is the day branch, the month branch, or a branch of a changing line.
CentreSupplied(b) ==
    \/ b = last_call.bazi.day.branch
    \/ b = last_call.bazi.month.branch
    \/ \E yao \in Lines :
           yao.is_changing /\ (yao.main_pillar.branch = b \/ yao.changed_pillar.branch = b)

\* Branch b is the main branch of a static an_dong line and of nothing else
\* that may supply it.
OnlyAnDongSupplies(b) ==
    /\ \E yao \in Lines : yao.main_pillar.branch = b /\ yao.an_dong /\ ~yao.is_changing
    /\ ~CentreSupplied(b)

\* C10: when check_san_he_ju returns a triad, each of its three branches is
\* supplied by the day, the month, the main branch of a changing or an_dong
\* line, or the changed branch of a changing line, and its centre branch by
\* the day, the month or a changing line; a static line supplies nothing and
\* a centre held only by an an_dong line does not qualify the triad.
C10_SanHeJuSources ==
    status = "returned" =>
        \A g \in 1..4 :
            result_json.san_he_ju = san_he_ju_name(g) =>
                /\ \A k \in 1..3 : BranchSupplied(san_he_ju_groups[g][k])
                /\ CentreSupplied(zhong_shen_of[g])
                /\ ~OnlyAnDongSupplies(zhong_shen_of[g])

\* A returned triad one of whose branches only a static an_dong line supplies.
C10_Witness ==
    /\ status = "returned"
    /\ \E g \in 1..4 :
           /\ result_json.san_he_ju = san_he_ju_name(g)
           /\ \E k \in 1..3 : OnlyAnDongSupplies(san_he_ju_groups[g][k])

\* No triad is returned although all three branches of one are supplied: its
\* centre is held only by a static an_dong line.
C10_AnDongCentreReached ==
    /\ status = "returned"
    /\ result_json.san_he_ju = None
    /\ \E g \in 1..4 :
           /\ \A k \in 1..3 : BranchSupplied(san_he_ju_groups[g][k])
           /\ OnlyAnDongSupplies(zhong_shen_of[g])

\* The triads (1..4, in the order of san_he_ju_groups) that pass the tests of
\* check_san_he_ju on the returned lines.
QualifyingTriads ==
    {g \in 1..4 : group_qualifies(liu_yao, last_call.bazi.day.branch,
                                  last_call.bazi.month.branch, g)}

\* C11: the triads are tried in the order si-you-chou, shen-zi-chen,
\* hai-mao-wei, yin-wu-xu and the result names the first that qualifies (its
\* three branches followed by san he ju), also when several qualify; when
\* none qualifies the result names no triad.
C11_FirstQualifyingTriad ==
    status = "returned" =>
        /\ QualifyingTriads = {} => result_json.san_he_ju = None
        /\ \A g \in QualifyingTriads :
               (\A h \in QualifyingTriads : g <= h) =>
                   /\ result_json.san_he_ju = san_he_ju_name(g)
                   /\ result_json.san_he_ju =
                          <<"si_you_chou_san_he_ju", "shen_zi_chen_san_he_ju",
                            "hai_mao_wei_san_he_ju", "yin_wu_xu_san_he_ju">>[g]

\* Two triads qualify at once and the earlier one is reported.
C11_Witness ==
    /\ status = "returned"
    /\ Cardinality(QualifyingTriads) >= 2
    /\ \E g \in QualifyingTriads : result_json.san_he_ju = san_he_ju_name(g)

\* C12: whenever each branch of a triad is supplied by an eligible source and
\* the centre branch is the main branch of some changing line, the triad is
\* detected, unless an earlier triad qualified; also in hexagrams where two
\* lines carry the same branch.
C12_TriadDetectedWhenCentreChanges ==
    status = "returned" =>
        \A g \in 1..4 :
            (/\ \A k \in 1..3 : BranchSupplied(san_he_ju_groups[g][k])
             /\ \E yao \in Lines :
                    yao.is_changing /\ yao.main_pillar.branch = zhong_shen_of[g]
             /\ \A h \in 1..(g - 1) : h \notin QualifyingTriads)
            => result_json.san_he_ju = san_he_ju_name(g)

\* The six combinations of the branches: zi-chou, yin-hai, mao-xu, chen-you,
\* si-shen, wu-wei.
SixCombinationPartner ==
    [zi |-> "chou", chou |-> "zi", yin |-> "hai", hai |-> "yin", mao |-> "xu", xu |-> "mao",
     chen |-> "you", you |-> "chen", si |-> "shen", shen |-> "si", wu |-> "wei", wei |-> "wu"]

\* C13: on every line the month combination is unset or one of sheng_he,
\* ke_he, ping_he, and it is set whenever the line's branch is the partner of
\* the month branch; the day combination is unset, sheng_he or ke_he, never
\* ping_he.
C13_CombinationTypes ==
    status = "returned" =>
        \A yao \in Lines :
            /\ yao.yue_he \in {None, "sheng_he", "ke_he", "ping_he"}
            /\ yao.main_pillar.branch = SixCombinationPartner[last_call.bazi.month.branch]
                   => yao.yue_he # None
            /\ yao.ri_he \in {None, "sheng_he", "ke_he"}

\* A line on the day's partner whose pair is a level pair (day combination
\* unset), next to a line with a level month combination.
C13_Witness ==
    /\ status = "returned"
    /\ \E yao \in Lines :
           /\ yao.main_pillar.branch = SixCombinationPartner[last_call.bazi.day.branch]
           /\ <<last_call.bazi.day.branch, yao.main_pillar.branch>> \in ping_he_pairs
           /\ yao.ri_he = None
    /\ \E yao \in Lines :
           /\ yao.main_pillar.branch = SixCombinationPartner[last_call.bazi.month.branch]
           /\ yao.yue_he = "ping_he"

\* The divination just made was on day ji-chou in the month of branch b.
OnJiChouInMonth(b) ==
    /\ status = "returned"
    /\ last_call.bazi.day = Pillar("ji", "chou")
    /\ last_call.bazi.month.branch = b

\* C14 as stated: in a si month (day ji-chou) a line on you has month
\* combination sheng_he.
C14_SiMonthYouLineShengHe ==
    OnJiChouInMonth("si") =>
        \A yao \in Lines : yao.main_pillar.branch = "you" => yao.yue_he = "sheng_he"

\* C14 amended: in a chen month (day ji-chou) a line on you has month
\* combination sheng_he.
C14_ChenMonthYouLineShengHe ==
    OnJiChouInMonth("chen") =>
        \A yao \in Lines : yao.main_pillar.branch = "you" => yao.yue_he = "sheng_he"

C14_Witness ==
    /\ OnJiChouInMonth("chen")
    /\ \E yao \in Lines : yao.main_pillar.branch = "you" /\ yao.yue_he = "sheng_he"

\* C15: no line has a month combination together with yue_peng, and no line
\* has a day combination together with ri_chong.
C15_CombinationExcludesClash ==
    status = "returned" =>
        \A yao \in Lines :
            /\ ~(yao.yue_he # None /\ yao.yue_peng)
            /\ ~(yao.ri_he # None /\ yao.ri_chong)

\* The two sides do mix on one line: a month combination with a day clash,
\* the month combination being one of the month-qi special cases.
C15_Witness ==
    /\ status = "returned"
    /\ \E yao \in Lines :
           /\ yao.yue_he = "ping_he" /\ yao.ri_chong /\ ~yao.yue_peng
           /\ yao.main_pillar.branch # SixCombinationPartner[last_call.bazi.month.branch]

\* The month-related conditions a line meets, by name.
MonthConditions(yao) ==
    {c \in {"lin_yue", "yue_fu", "yue_po", "yue_he"} :
        \/ c = "lin_yue" /\ yao.wang_shuai = "lin_yue"
        \/ c = "yue_fu" /\ yao.wang_shuai = "yue_fu"
        \/ c = "yue_po" /\ yao.yue_peng
        \/ c = "yue_he" /\ yao.yue_he # None}

\* C16: on every line at most one of the four month-related conditions holds:
\* strength lin_yue, strength yue_fu, yue_peng, month combination set.
C16_OneMonthCondition ==
    status = "returned" =>
        \A yao \in Lines : Cardinality(MonthConditions(yao)) <= 1

\* Elements numbered jin 0, shui 1, mu 2, huo 3, tu 4.
ElementNumber == [jin |-> 0, shui |-> 1, mu |-> 2, huo |-> 3, tu |-> 4]

\* The strength tag by the distance from the month's element to the line's:
\* 0 yue_fu, 1 yue_sheng, 2 yue_ke, 3 qiu, 4 xiu.
TagByDistance == <<"yue_fu", "yue_sheng", "yue_ke", "qiu", "xiu">>

\* C17: every line's strength tag is one of the six tags and never wei_zhi:
\* lin_yue iff the line's branch is the month's; otherwise yue_fu iff the
\* elements agree; otherwise by (line element - month element) mod 5:
\* 1 yue_sheng, 2 yue_ke, 3 qiu, 4 xiu.
C17_StrengthTag ==
    status = "returned" =>
        \A yao \in Lines :
            LET month_branch == last_call.bazi.month.branch
                d == (ElementNumber[yao.main_element]
                        - ElementNumber[branchFiveElements[month_branch]] + 5) % 5
            IN  /\ yao.wang_shuai \in {"lin_yue", "yue_fu", "yue_sheng", "yue_ke", "xiu", "qiu"}
                /\ yao.wang_shuai = "lin_yue" <=> yao.main_pillar.branch = month_branch
                /\ yao.main_pillar.branch # month_branch => yao.wang_shuai = TagByDistance[d + 1]

\* One hexagram whose six lines carry the six tags.
C17_Witness ==
    /\ status = "returned"
    /\ {liu_yao[p].wang_shuai : p \in 1..6} = {"lin_yue", "yue_fu", "yue_sheng", "yue_ke", "xiu", "qiu"}

\* The role of a pillar against the palace element of the main hexagram:
\* entry (line element - palace element + 5) mod 5 of xiong_di, zi_sun,
\* qi_cai, guan_gui, fu_mu.
RoleOfPillar(pillar) ==
    <<"xiong_di", "zi_sun", "qi_cai", "guan_gui", "fu_mu">>[
        ((ElementNumber[branchFiveElements[pillar.branch]]
            - ElementNumber[LastMainInfo.five_element] + 5) % 5) + 1]

\* C18: the kinship role of every main line, of every line of the changed
\* hexagram and of every hidden line is the entry at index
\* (line element - palace element + 5) mod 5 of the five roles, the palace
\* element being that of the main hexagram's palace.
C18_KinshipRole ==
    status = "returned" =>
        \A yao \in Lines :
            /\ yao.main_relative = RoleOfPillar(yao.main_pillar)
            /\ yao.changed_pillar # NoPillar => yao.changed_relative = RoleOfPillar(yao.changed_pillar)
            /\ yao.hidden_pillar # NoPillar => yao.hidden_relative = RoleOfPillar(yao.hidden_pillar)

\* A result with hidden lines whose changed hexagram belongs to a palace of
\* another element, with a changed line whose role against that other
\* element would differ.
C18_Witness ==
    /\ status = "returned"
    /\ LastListProper
    /\ \E yao \in Lines : yao.hidden_pillar # NoPillar
    /\ HEXAGRAM_MAP[ReportedChangedCode].five_element # LastMainInfo.five_element
    /\ \E yao \in Lines :
           /\ yao.is_changing
           /\ yao.changed_relative = RoleOfPillar(yao.changed_pillar)
           /\ yao.changed_relative #
                  get_relative(HEXAGRAM_MAP[ReportedChangedCode].five_element, yao.changed_element)

\* Branch number i of zi, chou, ..., hai, counted from 0.
BranchAt(i) == <<"zi", "chou", "yin", "mao", "chen", "si", "wu", "wei", "shen", "you", "xu", "hai">>[i + 1]

\* Numbers, counted from 0, of a stem among jia..gui and of a branch among zi..hai.
StemNumber(stem) == CHOOSE s \in 0..9 : valid_stems[s + 1] = stem
BranchNumber(branch) == CHOOSE b \in 0..11 : BranchAt(b) = branch

\* The branches the ten stems of the decan of a day pillar are paired with:
\* the decan starts at jia, s days before the pillar, and runs ten days.
DecanBranches(day) ==
    {BranchAt((BranchNumber(day.branch) - StemNumber(day.stem) + k + 12) % 12) : k \in 0..9}

\* The last divination was made on a day pillar of the cycle, with the void
\* branches calculate_xun_kong gave for it.
OnCycleDay ==
    /\ status = "returned"
    /\ last_call.bazi.day \in SexagenaryPillars
    /\ last_call.bazi.xun_kong_1 # ""

\* C19: for each of the sixty day pillars (stem s, branch b) the void branches
\* are the two that no stem of the pillar's decan is paired with, those at
\* (b - s + 10) mod 12 and (b - s + 11) mod 12; jia-zi gives xu, hai and
\* jia-xu gives shen, you.  The lines marked void are the lines on them.
C19_VoidBranches ==
    OnCycleDay =>
        LET day == last_call.bazi.day
            s == StemNumber(day.stem)
            b == BranchNumber(day.branch)
            void == {last_call.bazi.xun_kong_1, last_call.bazi.xun_kong_2}
        IN  /\ void = {BranchAt((b - s + 10 + 12) % 12), BranchAt((b - s + 11 + 12) % 12)}
            /\ void = Range(valid_branches) \ DecanBranches(day)
            /\ day = Pillar("jia", "zi") => void = {"xu", "hai"}
            /\ day = Pillar("jia", "xu") => void = {"shen", "you"}
            /\ \A yao \in Lines : yao.xun_kong <=> yao.main_pillar.branch \in void

\* A day late in its decan whose stem number exceeds its branch number
\* (gui-you, decan of jia-zi), with a line on a void branch.
C19_Witness ==
    /\ OnCycleDay
    /\ last_call.bazi.day = Pillar("gui", "you")
    /\ last_call.bazi.xun_kong_1 = "xu" /\ last_call.bazi.xun_kong_2 = "hai"
    /\ \E yao \in Lines : yao.xun_kong /\ yao.main_pillar.branch = "xu"

\* A table over the twelve branches that is its own inverse and maps no
\* branch to itself.
IsInvolutionWithoutFixedPoint(table) ==
    /\ DOMAIN table = Range(valid_branches)
    /\ \A b \in DOMAIN table :
           table[b] \in DOMAIN table /\ table[table[b]] = b /\ table[b] # b

ClashTableProper ==
    /\ IsInvolutionWithoutFixedPoint(DIZHI_CHONG_MAP)
    /\ \A b \in DOMAIN DIZHI_CHONG_MAP :
           DIZHI_CHONG_MAP[b] = BranchAt((BranchNumber(b) + 6) % 12)

CombinationTableProper == IsInvolutionWithoutFixedPoint(DIZHI_HE_MAP)

\* C20: the clash table and the combination table are involutions without
\* fixed points over the twelve branches, and the clash of a branch is the
\* branch six positions away; so the clash and the combination a result
\* reports for the month and for the day lead back to the month and the day.
C20_TablesAreInvolutions ==
    /\ ClashTableProper
    /\ CombinationTableProper
    /\ status = "returned" =>
           LET month_branch == last_call.bazi.month.branch
               day_branch == last_call.bazi.day.branch
               yue_po == dict_get(result_json.shen_sa, "yue_po")
               yue_he == dict_get(result_json.shen_sa, "yue_he")
               ri_chong == dict_get(result_json.shen_sa, "ri_chong")
               ri_he == dict_get(result_json.shen_sa, "ri_he")
           IN  /\ Len(yue_po) = 1 /\ Len(yue_he) = 1 /\ Len(ri_chong) = 1 /\ Len(ri_he) = 1
               /\ yue_po[1] # month_branch /\ DIZHI_CHONG_MAP[yue_po[1]] = month_branch
               /\ yue_po[1] = BranchAt((BranchNumber(month_branch) + 6) % 12)
               /\ ri_chong[1] # day_branch /\ DIZHI_CHONG_MAP[ri_chong[1]] = day_branch
               /\ ri_chong[1] = BranchAt((BranchNumber(day_branch) + 6) % 12)
               /\ yue_he[1] # month_branch /\ DIZHI_HE_MAP[yue_he[1]] = month_branch
               /\ ri_he[1] # day_branch /\ DIZHI_HE_MAP[ri_he[1]] = day_branch

\* A result whose day is the month's clash and combines with a branch other
\* than the month's partner: all four lookups differ.
C20_Witness ==
    /\ status = "returned"
    /\ dict_get(result_json.shen_sa, "yue_po") = <<last_call.bazi.day.branch>>
    /\ dict_get(result_json.shen_sa, "ri_chong") = <<last_call.bazi.month.branch>>
    /\ dict_get(result_json.shen_sa, "yue_he") = <<"si">>
    /\ dict_get(result_json.shen_sa, "ri_he") = <<"hai">>

\* C21: a call with an empty changing-line list returns a result; the result
\* has no changed-hexagram name and no changed-hexagram info, no line is
\* marked changing, and every line's changed pillar, element, role and
\* changed_* flags are at their defaults.
C21_EmptyListNoChangedHexagram ==
    (status # "idle" /\ last_call.changing_line_indices = <<>>) =>
        /\ status = "returned"
        /\ result_json.bian_gua_name = <<>>
        /\ result_json.bian_gua_info.name = None
        /\ result_json.bian_gua_info.palace = None
        /\ \A yao \in Lines :
               /\ ~yao.is_changing
               /\ yao.change_mark = YaoDetails(yao.position).change_mark
               /\ NoChangedData(yao)
               /\ ChangedFlagsDefault(yao)
        /\ \A p \in DOMAIN result_json.yao :
               /\ ~result_json.yao[p].isChanging
               /\ result_json.yao[p].changedPillar = <<>>

\* A returned call with an empty list whose main lines do carry day and month
\* relations.
C21_Witness ==
    /\ status = "returned"
    /\ last_call.changing_line_indices = <<>>
    /\ Len(liu_yao) = 6
    /\ \E yao \in Lines : yao.ri_chong /\ yao.an_dong
    /\ \E yao \in Lines : yao.yue_he # None

\* The categories of the reported shen sha map outside the set `structural`.
MarkerCategories(structural) ==
    {i \in DOMAIN result_json.shen_sa : result_json.shen_sa[i][1] \notin structural}

\* On every line, the marker list holds the name of each category in
\* MarkerCategories(structural) exactly when the line's branch is in that
\* category's branch list.
MarkersFollowCategories(structural) ==
    \A yao \in Lines :
        \A i \in MarkerCategories(structural) :
            result_json.shen_sa[i][1] \in Range(yao.shen_sha_markers)
                <=> yao.main_pillar.branch \in Range(result_json.shen_sa[i][2])

\* C22 as stated: for every category other than the four structural ones
\* (yue_jian, ri_chen, yue_po, ri_chong) a line's marker list holds the
\* category's name iff the line's main branch is in the category's list.
C22_MarkersOutsideFourStructural ==
    status = "returned" =>
        MarkersFollowCategories({"yue_jian", "ri_chen", "yue_po", "ri_chong"})

\* C22 amended: the same for every category other than the six structural
\* ones (yue_jian, ri_chen, yue_po, ri_chong, yue_he, ri_he).
C22_MarkersOutsideSixStructural ==
    status = "returned" =>
        MarkersFollowCategories({"yue_jian", "ri_chen", "yue_po", "ri_chong", "yue_he", "ri_he"})

\* A line that carries two category markers, next to a line on the month's
\* combination partner whose marker list does not name yue_he.
C22_Witness ==
    /\ status = "returned"
    /\ \E yao \in Lines : {"gui_ren", "yi_ma"} \subseteq Range(yao.shen_sha_markers)
    /\ \E yao \in Lines :
           /\ yao.main_pillar.branch \in Range(dict_get(result_json.shen_sa, "yue_he"))
           /\ yao.yue_he # None
           /\ "yue_he" \notin Range(yao.shen_sha_markers)

\* C23: under any interleaving of build_shen_sha_map calls, every call
\* returns the map a solitary call for its own BaZi returns, and every cache
\* key holds the map of that key; a race on a miss only repeats the
\* computation.
C23_ConcurrentCallsReturnOwnMap ==
    /\ \A t \in DOMAIN threads :
           threads[t].pc = "returned" =>
               threads[t].returned = compute_shen_sha_map(threads[t].bazi)
    /\ \A bazi \in CacheBaZis :
           cache_key(bazi) \in DOMAIN cache_refs =>
               map_value(heap_lists, heap_maps, cache_refs[cache_key(bazi)])
                   = compute_shen_sha_map(bazi)

\* Two callers both missed on the same BaZi and both computed and returned,
\* while the cache also holds the map of another BaZi that differs in the day
\* pillar only.
C23_Witness ==
    /\ \A t \in DOMAIN threads :
           threads[t].pc = "returned" /\ ~threads[t].hit /\ threads[t].bazi = TestBaZi1
    /\ DOMAIN threads = Threads
    /\ cache_key(DocBaZi) \in DOMAIN cache_refs

\* C25: changing a map one call returned (adding to, editing or removing its
\* branch lists) never changes what a later call for the same BaZi returns:
\* the later result, on a hit too, is that of a fresh computation.
C25_ChangedMapNotSeenLater ==
    \A t \in DOMAIN threads :
        (threads[t].pc = "returned" /\ threads[t].after_change) =>
            threads[t].returned = compute_shen_sha_map(threads[t].bazi)

\* A call answered from the cache after another caller changed the map it
\* had been given for the same BaZi.
C25_Witness ==
    \E t, u \in DOMAIN threads :
        /\ t # u
        /\ threads[t].pc = "returned" /\ threads[t].hit /\ threads[t].after_change
        /\ threads[u].pc = "returned" /\ threads[u].changed
        /\ threads[u].bazi = threads[t].bazi
        /\ map_value(heap_lists, heap_maps, threads[u].result)
               # compute_shen_sha_map(threads[u].bazi)

\* The strength tags.
StrengthTags == {"lin_yue", "yue_fu", "yue_sheng", "yue_ke", "xiu", "qiu"}

\* What the formatter shows for line p besides the strength tag, as C24
\* states it for ri_fu and ri_sheng.
DayMarkersAsStated(p) ==
    LET yao == liu_yao[p]
        shown == Range(display[p])
    IN  /\ "ri_fu" \in shown <=> (yao.ri_fu /\ ~yao.ri_chong)
        /\ "ri_sheng" \in shown <=> (yao.ri_sheng /\ yao.ri_he # "sheng_he")

\* C24 as stated: the strength tag is shown unless the line is yue_po and the
\* tag is yue_sheng or yue_ke, or the line has a month combination and the tag
\* is xiu, qiu, yue_sheng or yue_ke; ri_fu is shown iff ri_fu holds without
\* ri_chong; ri_sheng iff ri_sheng holds and the day combination is not
\* sheng_he; ri_ke iff ri_ke holds and the day combination is not ke_he.
C24_MarkerSuppression ==
    status = "returned" =>
        \A p \in DOMAIN liu_yao :
            LET yao == liu_yao[p]
                shown == Range(display[p])
            IN  /\ yao.wang_shuai \in shown <=>
                       ~(\/ yao.yue_peng /\ yao.wang_shuai \in {"yue_sheng", "yue_ke"}
                         \/ yao.yue_he # None
                               /\ yao.wang_shuai \in {"xiu", "qiu", "yue_sheng", "yue_ke"})
                /\ DayMarkersAsStated(p)
                /\ "ri_ke" \in shown <=> (yao.ri_ke /\ yao.ri_he # "ke_he")

\* C24 amended: the strength tag is shown unless the line is yue_po or has a
\* month combination and the tag is xiu, qiu, yue_sheng or yue_ke; ri_fu and
\* ri_sheng as stated; ri_ke is shown iff ri_ke holds, the day combination is
\* not ke_he and the line is not ri_chong.
C24_MarkerSuppressionWithClash ==
    status = "returned" =>
        \A p \in DOMAIN liu_yao :
            LET yao == liu_yao[p]
                shown == Range(display[p])
            IN  /\ yao.wang_shuai \in shown <=>
                       ~((yao.yue_peng \/ yao.yue_he # None)
                            /\ yao.wang_shuai \in {"xiu", "qiu", "yue_sheng", "yue_ke"})
                /\ DayMarkersAsStated(p)
                /\ "ri_ke" \in shown <=> (yao.ri_ke /\ yao.ri_he # "ke_he" /\ ~yao.ri_chong)

\* A result with a line that is yue_po with tag qiu (tag held back) and a
\* line that is ri_ke and ri_chong (ri_ke held back).
C24_Witness ==
    /\ status = "returned"
    /\ \E p \in DOMAIN liu_yao :
           /\ liu_yao[p].yue_peng /\ liu_yao[p].wang_shuai = "qiu"
           /\ Range(display[p]) \cap StrengthTags = {}
    /\ \E p \in DOMAIN liu_yao :
           /\ liu_yao[p].ri_ke /\ liu_yao[p].ri_chong
           /\ "ri_ke" \notin Range(display[p])

\* The trigram of three bits, bottom line first: qian 111, dui 110, li 101,
\* zhen 100, xun 011, kan 010, gen 001, kun 000.
TrigramOfBits(bits) ==
    CASE bits = <<1, 1, 1>> -> "qian"
      [] bits = <<1, 1, 0>> -> "dui"
      [] bits = <<1, 0, 1>> -> "li"
      [] bits = <<1, 0, 0>> -> "zhen"
      [] bits = <<0, 1, 1>> -> "xun"
      [] bits = <<0, 1, 0>> -> "kan"
      [] bits = <<0, 0, 1>> -> "gen"
      [] bits = <<0, 0, 0>> -> "kun"

\* The trigram under position p of a code: bits 0-2 for lines 1-3, bits 3-5
\* for lines 4-6.
TrigramUnder(code, p) ==
    IF p <= 3 THEN TrigramOfBits(SubSeq(code, 1, 3)) ELSE TrigramOfBits(SubSeq(code, 4, 6))

\* C26: for the catalog entry of every divined code, the inner trigram is the
\* one formed by bits 0-2 and the outer trigram the one formed by bits 3-5, and
\* the main pillar of each line is the pillar its position has in the sequence
\* of the trigram under it (lines 1-3 the lower trigram, lines 4-6 the upper).
C26_PillarsFollowCodeTrigrams ==
    status = "returned" =>
        /\ LastMainInfo.inner_hexagram = TrigramUnder(last_call.main_hexagram_code, 1)
        /\ LastMainInfo.outer_hexagram = TrigramUnder(last_call.main_hexagram_code, 4)
        /\ \A p \in DOMAIN liu_yao :
              liu_yao[p].main_pillar =
                  Pillar(PALACE_STEM_PATTERNS[TrigramUnder(last_call.main_hexagram_code, p)][p],
                         PALACE_BRANCH_PATTERNS[TrigramUnder(last_call.main_hexagram_code, p)][p])

\* C28: in every result no line is marked both an_dong and yue_peng, and a
\* static line that the day clashes and the month breaks is marked ri_peng.
C28_AnDongNeverWithYuePeng ==
    status = "returned" =>
        \A yao \in Lines :
            /\ ~(yao.an_dong /\ yao.yue_peng)
            /\ (yao.ri_chong /\ ~yao.is_changing /\ yao.yue_peng) => yao.ri_peng

\* C29: for every changing-line list with entries in 1..6, a line is marked
\* is_changing and carries a change mark exactly when the main code and the
\* changed code differ at its position.
C29_ChangingIffCodesDiffer ==
    (status = "returned" /\ LastListInRange) =>
        \A p \in DOMAIN liu_yao :
            (liu_yao[p].is_changing /\ liu_yao[p].change_mark \in {"O", "X"})
                <=> (result_json.bian_gua_info.name # None
                        /\ ReportedChangedCode[p] # last_call.main_hexagram_code[p])

\* C30: the serialized record of every line whose ri_chong is true differs
\* from the record of the same line with ri_chong false.
C30_SerializedRecordShowsDayClash ==
    status = "returned" =>
        \A yao \in Lines :
            yao.ri_chong => to_dict(yao) # to_dict([yao EXCEPT !.ri_chong = FALSE])

\* C27: once two concurrent result-formatting calls have both returned,
\* sys.stdout is the stream it was before they started, and each call's header
\* holds exactly the lines of its own result, in order.
C27_StdoutRestoredAndHeadersOwn ==
    (DOMAIN formatters = Threads /\ \A t \in Threads : formatters[t].pc = "done") =>
        /\ sys_stdout = console
        /\ \A t \in Threads :
              formatters[t].shen_sha_output = display_shen_sha_definitions(formatters[t].shen_sa)

====
